---- MODULE Spec2Model ----
(***************************************************************************)
(* Discrete-event network simulator with strict-priority switches and      *)
(* optional frame preemption (priority_stream_simulator.py and             *)
(* src/switch/preemptive_switch.py).                                       *)
(*                                                                         *)
(* Time is counted in whole seconds: every link has a bandwidth of         *)
(* 8 * LinkRate(l) bit/s (LinkRate(l) bytes per second) and a propagation  *)
(* delay of LinkDelay whole seconds, stream start times and intervals are  *)
(* whole seconds and message sizes are multiples of the link rates, so     *)
(* every time the code computes is a whole number (and exact in floating   *)
(* point).                                                                 *)
(***************************************************************************)
EXTENDS Integers, Sequences, FiniteSets, TLC

\* ---------------------------------------------------------------- bounds
SimDuration == 12          \* Network(sim_duration)
MaxStart == 1              \* latest start time of stream 1
MaxQueue == 2              \* largest max_queue_size tried
MaxNow == 3                \* latest current_time of a direct link call
MaxSize == 2               \* largest size of a direct link call, in seconds
MaxBusy == 4               \* direct link calls stop once busy_until exceeds it
MaxAdds == 1               \* most successful add_stream calls after the first three
MaxNodes == 8              \* most node names given to CollectivePatterns
MaxCalls == 2              \* most method calls on one CollectivePatterns
MaxEnqueues == 4           \* most enqueue calls on one PriorityQueue

\* ------------------------------------------------------ program constants
NumPriorities == 8         \* PriorityQueue.__init__: range(8)
MinPreemptionIntervalMs == 1   \* min_preemption_interval = 0.001 s
PriorityDiffThreshold == 2 \* priority_diff >= 2
None == -1                 \* Python None for numbers (max_queue_size, arrival_time)
NoName == "-"              \* Python None / absent entry for names

Priorities == 0 .. (NumPriorities - 1)

\* ------------------------------------------------------------ variables
VARIABLES
  \* configuration (fixed during a run)
  switch_kind,          \* "basic" (Switch) or "preemptive" (PreemptiveSwitch)
  preemption_enabled,   \* PreemptiveSwitch.preemption_enabled
  max_queue_size,       \* Switch.max_queue_size (None = unlimited)
  topology,             \* name of the wiring (see Topologies)
  streams,              \* Network.streams: stream_id -> Stream (+ start_time)
  \* Network
  phase,                \* position of Network.run: "running" or "done"
  current_time,         \* Network.current_time
  event_queue,          \* Network.event_queue (heap of Event, kept as a set)
  event_counter,        \* Network.event_counter
  message_id_counter,   \* Network.message_id_counter
  messages,             \* the Message objects, indexed by msg_id + 1
  completed_messages,   \* Network.completed_messages (msg ids)
  dropped_messages,     \* Network.dropped_messages (msg ids)
  \* Link, Node, Switch
  busy_until,           \* Link.busy_until, per link
  stream_seq_nums,      \* Node.stream_seq_nums, per stream
  node_received,        \* Node.messages_received, per node (msg ids)
  switches,             \* per switch: the fields of Switch / PreemptiveSwitch
  \* observation logs (history of what the handlers did)
  dispatched,           \* events dispatched by run(), in order, each with the
                        \* value of event_counter when it was popped
  lost_messages,        \* msg ids the code let go without recording them
  arrival_assignments,  \* per msg id + 1: how often arrival_time was assigned
  dequeue_log,          \* every PriorityQueue.dequeue that returned a message
  admit_log,            \* every capacity decision of receive_message
  preempt_log,          \* every record appended to paused_transmissions
  tx_log,               \* every transmission started by a node or a switch, or resumed
  \* calls made on the objects outside Network.run
  api                   \* the last such call: its arguments and what it gave

cfgvars == <<switch_kind, preemption_enabled, max_queue_size, topology, streams>>
netvars == <<phase, current_time, event_queue, event_counter, message_id_counter,
             messages, completed_messages, dropped_messages>>
objvars == <<busy_until, stream_seq_nums, node_received, switches>>
logvars == <<dispatched, lost_messages, arrival_assignments, dequeue_log,
             admit_log, preempt_log, tx_log>>
vars == <<cfgvars, netvars, objvars, logvars, api>>

\* ------------------------------------------------------------- helpers
Max(S) == CHOOSE x \in S : \A y \in S : y <= x
Min(S) == CHOOSE x \in S : \A y \in S : x <= y
MaxOf(a, b) == IF a >= b THEN a ELSE b
MinOf(a, b) == IF a <= b THEN a ELSE b
SeqToSet(q) == {q[i] : i \in 1 .. Len(q)}

\* ------------------------------------------------------------- topology
\* wirings: "star" one switch S with a port to every node; "chain" S -> T ->
\* C; "faulty" S with a port P that has no link and a port Z that leads to
\* no registered node or switch; "loop" S forwards destination A to itself;
\* "direct" no switch, the nodes' links lead straight to the destination
Nodes == {"A", "B", "C"}
Topologies == {"star", "chain", "faulty", "loop", "direct"}

SwitchNames == IF topology = "chain" THEN {"S", "T"}
               ELSE IF topology = "direct" THEN {} ELSE {"S"}

\* Node.output_link (every node that sends has one)
NodeLink(n) == n \o ">"

\* Node._next_hop (NoName: set_next_hop was never called)
NextHop(n) == IF topology = "direct" THEN NoName ELSE "S"

\* Switch.forwarding_table.get(dst) (NoName: no entry)
ForwardingTable(sw, dst) ==
  CASE topology = "star" /\ sw = "S" /\ dst \in Nodes -> dst
    [] topology = "chain" /\ sw = "S" /\ dst = "C" -> "T"
    [] topology = "chain" /\ sw = "S" /\ dst = "A" -> "A"
    [] topology = "chain" /\ sw = "T" /\ dst = "C" -> "C"
    [] topology = "faulty" /\ sw = "S" /\ dst = "C" -> "C"
    [] topology = "faulty" /\ sw = "S" /\ dst = "A" -> "P"
    [] topology = "faulty" /\ sw = "S" /\ dst = "B" -> "Z"
    [] topology = "loop" /\ sw = "S" /\ dst = "C" -> "C"
    [] topology = "loop" /\ sw = "S" /\ dst = "A" -> "S"
    [] OTHER -> NoName

\* Switch.output_links.get(port) (NoName: no link on the port)
OutputLink(sw, port) ==
  CASE topology = "star" /\ sw = "S" /\ port \in Nodes -> "S>" \o port
    [] topology = "chain" /\ sw = "S" /\ port \in {"T", "A"} -> "S>" \o port
    [] topology = "chain" /\ sw = "T" /\ port = "C" -> "T>C"
    [] topology = "faulty" /\ sw = "S" /\ port \in {"C", "Z"} -> "S>" \o port
    [] topology = "loop" /\ sw = "S" /\ port \in {"C", "S"} -> "S>" \o port
    [] OTHER -> NoName

Links == {"A>", "B>", "C>", "S>A", "S>B", "S>C", "S>S", "S>T", "S>Z", "T>C"}

\* Link.bandwidth_bps / 8, in bytes per second
LinkRate(l) == IF l \in {"A>", "B>", "C>", "S>T"} THEN 2 ELSE 1

\* Link.delay_sec
LinkDelay == 1

\* Network.sim_duration
sim_duration == SimDuration

\* ------------------------------------------------------------ the state
\* All mutable objects of one run, bundled so that a handler is a function
\* from state to state (handlers call each other synchronously).
State ==
  [current_time |-> current_time, event_queue |-> event_queue,
   event_counter |-> event_counter, message_id_counter |-> message_id_counter,
   messages |-> messages, completed_messages |-> completed_messages,
   dropped_messages |-> dropped_messages, busy_until |-> busy_until,
   stream_seq_nums |-> stream_seq_nums, node_received |-> node_received,
   switches |-> switches, lost_messages |-> lost_messages,
   arrival_assignments |-> arrival_assignments, dequeue_log |-> dequeue_log,
   admit_log |-> admit_log, preempt_log |-> preempt_log, tx_log |-> tx_log]

\* ------------------------------------------------------- Event, scheduler
\* Event(time, priority, action): the action closure is kept as its kind and
\* the objects it captured.
Event(kind, target, stream, msg, port, link) ==
  [time |-> 0, priority |-> 0, kind |-> kind, target |-> target,
   stream |-> stream, msg |-> msg, port |-> port, link |-> link]

\* variant: ties in time broken by the larger counter (last scheduled first)
EventLess_lifo(e1, e2) ==
  \/ e1.time < e2.time
  \/ e1.time = e2.time /\ e1.priority > e2.priority

\* Event.__lt__ of the order=True dataclass: (time, priority) lexicographic
EventLess(e1, e2) ==
  \/ e1.time < e2.time
  \/ e1.time = e2.time /\ e1.priority < e2.priority

\* heapq.heappop: the least event of the heap
HeapTop(q) == CHOOSE e \in q : \A o \in q \ {e} : EventLess(e, o)

\* variant: the insertion counter is not advanced, events share counters
schedule_event_same_counter(s, time, ev) ==
  [s EXCEPT !.event_queue = @ \cup {[ev EXCEPT !.time = time,
                                              !.priority = s.event_counter]}]

\* Network.schedule_event (returns nothing: callers that keep the result as
\* an event handle keep None)
schedule_event(s, time, ev) ==
  [s EXCEPT !.event_queue = @ \cup {[ev EXCEPT !.time = time,
                                              !.priority = s.event_counter]},
            !.event_counter = @ + 1]

\* ------------------------------------------------------------------ Link
\* Link.get_transmission_time: size_bytes * 8 / bandwidth_bps
get_transmission_time(l, size_bytes) == size_bytes \div LinkRate(l)

\* variant: the transmission starts at current_time even on a busy link
start_transmission_from_now(s, l, now, size_bytes) ==
  [s EXCEPT !.busy_until[l] = now + get_transmission_time(l, size_bytes)]

\* Link.start_transmission: the new state; the returned arrival time is
\* ArrivalTime of the new state
start_transmission(s, l, now, size_bytes) ==
  [s EXCEPT !.busy_until[l] = MaxOf(now, @) + get_transmission_time(l, size_bytes)]

ArrivalTime(s, l) == s.busy_until[l] + LinkDelay

\* --------------------------------------------------------- PriorityQueue
\* PriorityQueue.__init__
EmptyPriorityQueue ==
  [queues |-> [p \in Priorities |-> <<>>], total_size |-> 0]

\* variant: total_size is not incremented
enqueue_uncounted(pq, message, priority, output_port, seq) ==
  [queues |-> [pq.queues EXCEPT ![priority] =
                 Append(@, [message |-> message, output_port |-> output_port,
                            seq |-> seq])],
   total_size |-> pq.total_size]

\* PriorityQueue.enqueue; seq is the switch's messages_received at the
\* arrival (the arrival order), carried along for observation only
enqueue(pq, message, priority, output_port, seq) ==
  [queues |-> [pq.queues EXCEPT ![priority] =
                 Append(@, [message |-> message, output_port |-> output_port,
                            seq |-> seq])],
   total_size |-> pq.total_size + 1]

NonEmptyPriorities(pq) == {p \in Priorities : pq.queues[p] # <<>>}

\* variant: the scan runs from priority 0 upwards
dequeue_lowest_first(pq) ==
  IF NonEmptyPriorities(pq) = {} THEN [result |-> <<>>, pq |-> pq]
  ELSE LET p == Min(NonEmptyPriorities(pq)) IN
       [result |-> <<Head(pq.queues[p])>>,
        pq |-> [queues |-> [pq.queues EXCEPT ![p] = Tail(@)],
                total_size |-> pq.total_size - 1]]

\* PriorityQueue.dequeue: result is <<>> (None) or <<entry>>
dequeue(pq) ==
  IF NonEmptyPriorities(pq) = {} THEN [result |-> <<>>, pq |-> pq]
  ELSE LET p == Max(NonEmptyPriorities(pq)) IN
       [result |-> <<Head(pq.queues[p])>>,
        pq |-> [queues |-> [pq.queues EXCEPT ![p] = Tail(@)],
                total_size |-> pq.total_size - 1]]

\* PriorityQueue.get_lowest_priority_message: <<>> or <<[priority, entry]>>;
\* the entry is queues[priority][-1], the last appended one
get_lowest_priority_message(pq) ==
  IF NonEmptyPriorities(pq) = {} THEN <<>>
  ELSE LET p == Min(NonEmptyPriorities(pq)) IN
       <<[priority |-> p, entry |-> pq.queues[p][Len(pq.queues[p])]]>>

\* variant: the scan runs from priority 7 downwards
drop_highest_priority_message(pq) ==
  IF NonEmptyPriorities(pq) = {} THEN [result |-> <<>>, pq |-> pq]
  ELSE LET p == Max(NonEmptyPriorities(pq))
           q == pq.queues[p] IN
       [result |-> <<q[Len(q)]>>,
        pq |-> [queues |-> [pq.queues EXCEPT ![p] = SubSeq(q, 1, Len(q) - 1)],
                total_size |-> pq.total_size - 1]]

\* PriorityQueue.drop_lowest_priority_message: queues[priority].pop()
drop_lowest_priority_message(pq) ==
  IF NonEmptyPriorities(pq) = {} THEN [result |-> <<>>, pq |-> pq]
  ELSE LET p == Min(NonEmptyPriorities(pq))
           q == pq.queues[p] IN
       [result |-> <<q[Len(q)]>>,
        pq |-> [queues |-> [pq.queues EXCEPT ![p] = SubSeq(q, 1, Len(q) - 1)],
                total_size |-> pq.total_size - 1]]

\* PriorityQueue.is_empty
is_empty(pq) == pq.total_size = 0

\* ------------------------------------------------------------------ Node
\* Message(...) as built by Node.generate_message
Message(msg_id, stream, seq_num, creation_time) ==
  [msg_id |-> msg_id, stream_id |-> stream.stream_id, seq_num |-> seq_num,
   priority |-> stream.priority, src_node |-> stream.src_node,
   dst_node |-> stream.dst_node, size_bytes |-> stream.message_size_bytes,
   creation_time |-> creation_time, transmission_start_time |-> None,
   arrival_time |-> None, dropped |-> FALSE, drop_reason |-> ""]

\* Node.generate_message (every sending node has an output link and its
\* stream registered, so the two early returns are not taken)
generate_message(s, node, stream_id, now) ==
  LET stream == streams[stream_id]
      msg_id == s.message_id_counter
      link == NodeLink(node)
      s1 == [s EXCEPT !.message_id_counter = @ + 1,
                      !.messages = Append(@, Message(msg_id, stream,
                                        s.stream_seq_nums[stream_id], now)),
                      !.arrival_assignments = Append(@, 0),
                      !.stream_seq_nums[stream_id] = @ + 1]
      s2 == start_transmission(s1, link, now, stream.message_size_bytes)
      s3 == [s2 EXCEPT !.messages[msg_id + 1].transmission_start_time =
                MaxOf(now, s2.busy_until[link]
                           - get_transmission_time(link, stream.message_size_bytes)),
                       !.tx_log = Append(@,
                          [sw |-> node, msg |-> msg_id, kind |-> "node",
                           link |-> link, start |-> MaxOf(now, s1.busy_until[link]),
                           end |-> s2.busy_until[link], now |-> now,
                           events |-> s2.event_counter])]
      destination == IF NextHop(node) # NoName THEN NextHop(node)
                     ELSE stream.dst_node
      s4 == schedule_event(s3, ArrivalTime(s2, link),
                           Event("deliver", destination, 0, msg_id, NoName, NoName))
      next_time == now + stream.message_interval_sec
  IN IF next_time < sim_duration
     THEN schedule_event(s4, next_time,
                         Event("generate", node, stream_id, None, NoName, NoName))
     ELSE s4

\* Node.receive_message
Node_receive_message(s, node, m, now) ==
  [s EXCEPT !.messages[m + 1].arrival_time = now,
            !.arrival_assignments[m + 1] = @ + 1,
            !.node_received[node] = Append(@, m)]

\* ---------------------------------------------------------------- Switch
\* Switch.__init__ and PreemptiveSwitch.__init__
NewSwitch ==
  [priority_queue |-> EmptyPriorityQueue, is_transmitting |-> FALSE,
   messages_received |-> 0, messages_forwarded |-> 0, messages_dropped |-> 0,
   drops_by_priority |-> [p \in Priorities |-> 0],
   last_preemption_time |-> 0, current_transmission |-> <<>>,
   paused_transmissions |-> <<>>, preemptions_count |-> 0,
   preemptions_by_priority |-> [p \in Priorities |-> 0],
   total_preemption_overhead_ms |-> 0]

\* variant: a drop is counted by the switch but not tracked by the network
record_drop_untracked(s, sw, m, reason, by_priority) ==
  [s EXCEPT !.messages[m + 1].dropped = TRUE,
            !.messages[m + 1].drop_reason = reason,
            !.switches[sw].messages_dropped = @ + 1,
            !.switches[sw].drops_by_priority[s.messages[m + 1].priority] =
                IF by_priority THEN @ + 1 ELSE @]

\* the drop bookkeeping repeated in receive_message: message.dropped,
\* drop_reason, messages_dropped, drops_by_priority (not for a missing
\* forwarding entry), Network.track_dropped_message
record_drop(s, sw, m, reason, by_priority) ==
  [s EXCEPT !.messages[m + 1].dropped = TRUE,
            !.messages[m + 1].drop_reason = reason,
            !.switches[sw].messages_dropped = @ + 1,
            !.switches[sw].drops_by_priority[s.messages[m + 1].priority] =
                IF by_priority THEN @ + 1 ELSE @,
            !.dropped_messages = Append(@, m)]

\* variant: a queue counts as full only above max_queue_size
queue_full_above(pq) ==
  max_queue_size # None /\ pq.total_size > max_queue_size

\* the test of lines 285-286 of receive_message (the same in PreemptiveSwitch,
\* lines 113-114): a bound is set and the queue holds that many messages
queue_full(pq) ==
  max_queue_size # None /\ pq.total_size >= max_queue_size

\* variant: an arrival of equal priority also evicts the lowest queued message
capacity_check_evict_equal(s, sw, m) ==
  LET pq == s.switches[sw].priority_queue
      lowest == get_lowest_priority_message(pq)
      d == drop_lowest_priority_message(pq)
  IN IF queue_full(pq)
     THEN IF lowest # <<>>
          THEN IF s.messages[m + 1].priority >= lowest[1].priority
               THEN [s |-> record_drop([s EXCEPT !.switches[sw].priority_queue = d.pq],
                                       sw, d.result[1].message,
                                       "Preempted by higher priority", TRUE),
                     accepted |-> TRUE, outcome |-> "evict",
                     victim |-> d.result[1].message]
               ELSE [s |-> record_drop(s, sw, m, "Buffer overflow (tail drop)", TRUE),
                     accepted |-> FALSE, outcome |-> "taildrop", victim |-> None]
          ELSE [s |-> record_drop(s, sw, m, "Buffer overflow", TRUE),
                accepted |-> FALSE, outcome |-> "overflow", victim |-> None]
     ELSE [s |-> s, accepted |-> TRUE, outcome |-> "enqueue", victim |-> None]

\* the queue capacity check of receive_message (the same code in Switch and
\* in PreemptiveSwitch): the new state, whether the message goes on to be
\* enqueued, and what was decided
capacity_check(s, sw, m) ==
  LET pq == s.switches[sw].priority_queue
      lowest == get_lowest_priority_message(pq)
      d == drop_lowest_priority_message(pq)
  IN IF queue_full(pq)
     THEN IF lowest # <<>>
          THEN IF s.messages[m + 1].priority > lowest[1].priority
               THEN [s |-> record_drop([s EXCEPT !.switches[sw].priority_queue = d.pq],
                                       sw, d.result[1].message,
                                       "Preempted by higher priority", TRUE),
                     accepted |-> TRUE, outcome |-> "evict",
                     victim |-> d.result[1].message]
               ELSE [s |-> record_drop(s, sw, m, "Buffer overflow (tail drop)", TRUE),
                     accepted |-> FALSE, outcome |-> "taildrop", victim |-> None]
          ELSE [s |-> record_drop(s, sw, m, "Buffer overflow", TRUE),
                accepted |-> FALSE, outcome |-> "overflow", victim |-> None]
     ELSE [s |-> s, accepted |-> TRUE, outcome |-> "enqueue", victim |-> None]

\* what receive_message decided for an arriving message that has a
\* forwarding entry. pre is the state in which the handler found the switch,
\* s the state after the decision (after the enqueue of line 322 when the
\* message was accepted, before the forwarding attempt of lines 324-326);
\* final is completed by end_admit when the handler returns.
log_admit(s, pre, sw, m, now, outcome, victim) ==
  LET ct == pre.switches[sw].current_transmission IN
  [s EXCEPT !.admit_log = Append(@,
     [sw |-> sw, msg |-> m, now |-> now, outcome |-> outcome, victim |-> victim,
      before |-> pre.switches[sw].priority_queue,
      after |-> s.switches[sw].priority_queue,
      final |-> s.switches[sw].priority_queue,
      dropped_before |-> pre.dropped_messages,
      dropped_after |-> s.dropped_messages,
      victim_dropped |-> victim # None /\ s.messages[victim + 1].dropped,
      victim_reason |-> IF victim # None THEN s.messages[victim + 1].drop_reason
                        ELSE "",
      was_transmitting |-> pre.switches[sw].is_transmitting,
      had_current |-> ct # <<>>,
      current_msg |-> IF ct # <<>> THEN ct[1].message ELSE None,
      last_preemption_time |-> pre.switches[sw].last_preemption_time,
      preemptions_before |-> pre.switches[sw].preemptions_count,
      preemptions_after |-> s.switches[sw].preemptions_count])]

\* the queue of the switch when receive_message returns, noted in the entry
\* log_admit wrote for this call
end_admit(s, sw) ==
  [s EXCEPT !.admit_log[Len(s.admit_log)].final = s.switches[sw].priority_queue]

\* variant: a switch that finds its queue empty keeps is_transmitting
Switch_forward_next_message_keep_flag(s, sw, now) ==
  LET pq == s.switches[sw].priority_queue
      d == dequeue(pq)
  IN IF is_empty(pq) \/ d.result = <<>>
     THEN s
     ELSE LET message == d.result[1].message
              output_port == d.result[1].output_port
              link == OutputLink(sw, output_port)
              s1 == [s EXCEPT !.switches[sw].priority_queue = d.pq,
                              !.switches[sw].is_transmitting = TRUE,
                              !.dequeue_log = Append(@,
                                 [sw |-> sw, entry |-> d.result[1], before |-> pq])]
          IN IF link = NoName
             THEN [s1 EXCEPT !.switches[sw].is_transmitting = FALSE,
                             !.lost_messages = Append(@, message)]
             ELSE LET s2 == start_transmission(s1, link, now,
                                               s.messages[message + 1].size_bytes)
                      s3 == [s2 EXCEPT !.switches[sw].messages_forwarded = @ + 1,
                                       !.tx_log = Append(@,
                                          [sw |-> sw, msg |-> message, kind |-> "fresh",
                                           link |-> link, start |-> MaxOf(now, s1.busy_until[link]),
                                           end |-> s2.busy_until[link], now |-> now,
                                           events |-> s2.event_counter])]
                      s4 == schedule_event(s3, ArrivalTime(s2, link),
                               Event("deliver", output_port, 0, message, NoName, NoName))
                  IN schedule_event(s4, s2.busy_until[link],
                               Event("forward", sw, 0, None, NoName, link))

\* Switch.forward_next_message
Switch_forward_next_message(s, sw, now) ==
  LET pq == s.switches[sw].priority_queue
      d == dequeue(pq)
  IN IF is_empty(pq) \/ d.result = <<>>
     THEN [s EXCEPT !.switches[sw].is_transmitting = FALSE]
     ELSE LET message == d.result[1].message
              output_port == d.result[1].output_port
              link == OutputLink(sw, output_port)
              s1 == [s EXCEPT !.switches[sw].priority_queue = d.pq,
                              !.switches[sw].is_transmitting = TRUE,
                              !.dequeue_log = Append(@,
                                 [sw |-> sw, entry |-> d.result[1], before |-> pq])]
          IN IF link = NoName
             THEN [s1 EXCEPT !.switches[sw].is_transmitting = FALSE,
                             !.lost_messages = Append(@, message)]
             ELSE LET s2 == start_transmission(s1, link, now,
                                               s.messages[message + 1].size_bytes)
                      s3 == [s2 EXCEPT !.switches[sw].messages_forwarded = @ + 1,
                                       !.tx_log = Append(@,
                                          [sw |-> sw, msg |-> message, kind |-> "fresh",
                                           link |-> link, start |-> MaxOf(now, s1.busy_until[link]),
                                           end |-> s2.busy_until[link], now |-> now,
                                           events |-> s2.event_counter])]
                      s4 == schedule_event(s3, ArrivalTime(s2, link),
                               Event("deliver", output_port, 0, message, NoName, NoName))
                  IN schedule_event(s4, s2.busy_until[link],
                               Event("forward", sw, 0, None, NoName, link))

\* variant: the forwarding table is not consulted before the capacity check
Switch_receive_message_unrouted(s, sw, m, now) ==
  LET s1 == [s EXCEPT !.switches[sw].messages_received = @ + 1]
      output_port == ForwardingTable(sw, s.messages[m + 1].dst_node)
      c == capacity_check(s1, sw, m)
      s2 == [c.s EXCEPT !.switches[sw].priority_queue =
                enqueue(@, m, s.messages[m + 1].priority, output_port,
                        s1.switches[sw].messages_received)]
      s3 == log_admit(s2, s1, sw, m, now, c.outcome, c.victim)
  IN IF ~c.accepted
     THEN log_admit(c.s, s1, sw, m, now, c.outcome, c.victim)
     ELSE IF ~s3.switches[sw].is_transmitting
     THEN end_admit(Switch_forward_next_message(s3, sw, now), sw)
     ELSE s3

\* Switch.receive_message
Switch_receive_message(s, sw, m, now) ==
  LET s1 == [s EXCEPT !.switches[sw].messages_received = @ + 1]
      output_port == ForwardingTable(sw, s.messages[m + 1].dst_node)
      c == capacity_check(s1, sw, m)
      s2 == [c.s EXCEPT !.switches[sw].priority_queue =
                enqueue(@, m, s.messages[m + 1].priority, output_port,
                        s1.switches[sw].messages_received)]
      s3 == log_admit(s2, s1, sw, m, now, c.outcome, c.victim)
  IN IF output_port = NoName
     THEN record_drop(s1, sw, m, "No forwarding entry", FALSE)
     ELSE IF ~c.accepted
     THEN log_admit(c.s, s1, sw, m, now, c.outcome, c.victim)
     ELSE IF ~s3.switches[sw].is_transmitting
     THEN end_admit(Switch_forward_next_message(s3, sw, now), sw)
     ELSE s3

\* ------------------------------------------------------ PreemptiveSwitch
\* sorted(paused_transmissions, key=priority, reverse=True): a stable sort,
\* entries of equal priority keep their order
RECURSIVE sort_paused(_, _)
sort_paused(s, paused) ==
  IF paused = <<>> THEN <<>>
  ELSE LET top == Max({s.messages[paused[i].message + 1].priority : i \in 1 .. Len(paused)})
           k == Min({i \in 1 .. Len(paused) :
                       s.messages[paused[i].message + 1].priority = top})
       IN <<paused[k]>> \o
          sort_paused(s, SubSeq(paused, 1, k - 1) \o SubSeq(paused, k + 1, Len(paused)))

\* variant: the remaining bytes are counted from what the transmission had
\* left when it started (the resumed part only)
preempt_current_transmission_carry(s, sw, now, by) ==
  IF s.switches[sw].current_transmission = <<>> THEN s
  ELSE LET trans == s.switches[sw].current_transmission[1]
           message == trans.message
           link == trans.link
           size_bytes == s.messages[message + 1].size_bytes
           time_elapsed == now - trans.start_time
           bytes_transmitted == MinOf(time_elapsed * LinkRate(link), size_bytes)
           bytes_remaining == trans.bytes_remaining - bytes_transmitted
           paused == [message |-> message, output_port |-> trans.output_port,
                      link |-> link, bytes_transmitted |-> bytes_transmitted,
                      bytes_remaining |-> bytes_remaining, paused_at |-> now]
       IN [s EXCEPT !.busy_until[link] = now,
                    !.switches[sw].paused_transmissions = Append(@, paused),
                    !.switches[sw].preemptions_count = @ + 1,
                    !.switches[sw].preemptions_by_priority[s.messages[message + 1].priority] = @ + 1,
                    !.switches[sw].current_transmission = <<>>,
                    !.switches[sw].is_transmitting = FALSE,
                    !.preempt_log = Append(@,
                       [sw |-> sw, paused |-> paused, by |-> by,
                        size_bytes |-> size_bytes, start_time |-> trans.start_time,
                        resumed |-> trans.resumed,
                        tx_index |-> Len(s.tx_log),
                        admit_index |-> Len(s.admit_log) + 1])]

\* PreemptiveSwitch._preempt_current_transmission. The event handles kept in
\* current_transmission are the results of schedule_event, which are None, so
\* the two cancel_event calls of lines 168-171 are never made: the completion
\* and slot events of the preempted transmission stay in the event queue.
\* by is the arriving message (for the log only).
preempt_current_transmission(s, sw, now, by) ==
  IF s.switches[sw].current_transmission = <<>> THEN s
  ELSE LET trans == s.switches[sw].current_transmission[1]
           message == trans.message
           link == trans.link
           size_bytes == s.messages[message + 1].size_bytes
           time_elapsed == now - trans.start_time
           bytes_transmitted == MinOf(time_elapsed * LinkRate(link), size_bytes)
           bytes_remaining == size_bytes - bytes_transmitted
           paused == [message |-> message, output_port |-> trans.output_port,
                      link |-> link, bytes_transmitted |-> bytes_transmitted,
                      bytes_remaining |-> bytes_remaining, paused_at |-> now]
       IN [s EXCEPT !.busy_until[link] = now,
                    !.switches[sw].paused_transmissions = Append(@, paused),
                    !.switches[sw].preemptions_count = @ + 1,
                    !.switches[sw].preemptions_by_priority[s.messages[message + 1].priority] = @ + 1,
                    !.switches[sw].current_transmission = <<>>,
                    !.switches[sw].is_transmitting = FALSE,
                    !.preempt_log = Append(@,
                       [sw |-> sw, paused |-> paused, by |-> by,
                        size_bytes |-> size_bytes, start_time |-> trans.start_time,
                        resumed |-> trans.resumed,
                        tx_index |-> Len(s.tx_log),
                        admit_index |-> Len(s.admit_log) + 1])]

\* variant: the completion event is scheduled without the propagation delay
PreemptiveSwitch_start_transmission_no_delay(s, sw, message, output_port, link, now) ==
  LET transmission_time == get_transmission_time(link, s.messages[message + 1].size_bytes)
      start_time == MaxOf(now, s.busy_until[link])
      completion_time == start_time + transmission_time
      s1 == [s EXCEPT !.busy_until[link] = start_time + transmission_time,
                      !.switches[sw].messages_forwarded = @ + 1,
                      !.tx_log = Append(@,
                         [sw |-> sw, msg |-> message, kind |-> "fresh",
                          link |-> link, start |-> start_time,
                          end |-> start_time + transmission_time, now |-> now,
                          events |-> s.event_counter])]
      s2 == schedule_event(s1, completion_time,
                           Event("complete", sw, 0, message, output_port, NoName))
      s3 == schedule_event(s2, s1.busy_until[link],
                           Event("slot", sw, 0, None, NoName, link))
  IN [s3 EXCEPT !.switches[sw].current_transmission =
        <<[message |-> message, output_port |-> output_port, link |-> link,
           start_time |-> start_time, bytes_transmitted |-> 0,
           bytes_remaining |-> s.messages[message + 1].size_bytes,
           completion_time |-> completion_time, resumed |-> FALSE]>>]

\* PreemptiveSwitch._start_transmission
PreemptiveSwitch_start_transmission(s, sw, message, output_port, link, now) ==
  LET transmission_time == get_transmission_time(link, s.messages[message + 1].size_bytes)
      start_time == MaxOf(now, s.busy_until[link])
      completion_time == start_time + transmission_time + LinkDelay
      s1 == [s EXCEPT !.busy_until[link] = start_time + transmission_time,
                      !.switches[sw].messages_forwarded = @ + 1,
                      !.tx_log = Append(@,
                         [sw |-> sw, msg |-> message, kind |-> "fresh",
                          link |-> link, start |-> start_time,
                          end |-> start_time + transmission_time, now |-> now,
                          events |-> s.event_counter])]
      s2 == schedule_event(s1, completion_time,
                           Event("complete", sw, 0, message, output_port, NoName))
      s3 == schedule_event(s2, s1.busy_until[link],
                           Event("slot", sw, 0, None, NoName, link))
  IN [s3 EXCEPT !.switches[sw].current_transmission =
        <<[message |-> message, output_port |-> output_port, link |-> link,
           start_time |-> start_time, bytes_transmitted |-> 0,
           bytes_remaining |-> s.messages[message + 1].size_bytes,
           completion_time |-> completion_time, resumed |-> FALSE]>>]

\* variant: the resumed record stays in paused_transmissions
resume_paused_transmission_keep(s, sw, now) ==
  IF s.switches[sw].paused_transmissions = <<>> THEN s
  ELSE LET paused == Head(s.switches[sw].paused_transmissions)
           message == paused.message
           link == paused.link
           remaining_time == paused.bytes_remaining \div LinkRate(link)
           start_time == MaxOf(now, s.busy_until[link])
           completion_time == start_time + remaining_time + LinkDelay
           s1 == [s EXCEPT !.busy_until[link] = start_time + remaining_time,
                           !.switches[sw].total_preemption_overhead_ms =
                               @ + (now - paused.paused_at) * 1000,
                           !.switches[sw].is_transmitting = TRUE,
                           !.tx_log = Append(@,
                              [sw |-> sw, msg |-> message, kind |-> "resume",
                               link |-> link, start |-> start_time,
                               end |-> start_time + remaining_time, now |-> now,
                               events |-> s.event_counter])]
           s2 == schedule_event(s1, completion_time,
                                Event("complete", sw, 0, message, paused.output_port, NoName))
           s3 == schedule_event(s2, s1.busy_until[link],
                                Event("slot", sw, 0, None, NoName, link))
       IN [s3 EXCEPT !.switches[sw].current_transmission =
             <<[message |-> message, output_port |-> paused.output_port,
                link |-> link, start_time |-> start_time,
                bytes_transmitted |-> paused.bytes_transmitted,
                bytes_remaining |-> paused.bytes_remaining,
                completion_time |-> completion_time, resumed |-> TRUE]>>]

\* PreemptiveSwitch._resume_paused_transmission
resume_paused_transmission(s, sw, now) ==
  IF s.switches[sw].paused_transmissions = <<>> THEN s
  ELSE LET paused == Head(s.switches[sw].paused_transmissions)
           message == paused.message
           link == paused.link
           remaining_time == paused.bytes_remaining \div LinkRate(link)
           start_time == MaxOf(now, s.busy_until[link])
           completion_time == start_time + remaining_time + LinkDelay
           s1 == [s EXCEPT !.switches[sw].paused_transmissions = Tail(@),
                           !.busy_until[link] = start_time + remaining_time,
                           !.switches[sw].total_preemption_overhead_ms =
                               @ + (now - paused.paused_at) * 1000,
                           !.switches[sw].is_transmitting = TRUE,
                           !.tx_log = Append(@,
                              [sw |-> sw, msg |-> message, kind |-> "resume",
                               link |-> link, start |-> start_time,
                               end |-> start_time + remaining_time, now |-> now,
                               events |-> s.event_counter])]
           s2 == schedule_event(s1, completion_time,
                                Event("complete", sw, 0, message, paused.output_port, NoName))
           s3 == schedule_event(s2, s1.busy_until[link],
                                Event("slot", sw, 0, None, NoName, link))
       IN [s3 EXCEPT !.switches[sw].current_transmission =
             <<[message |-> message, output_port |-> paused.output_port,
                link |-> link, start_time |-> start_time,
                bytes_transmitted |-> paused.bytes_transmitted,
                bytes_remaining |-> paused.bytes_remaining,
                completion_time |-> completion_time, resumed |-> TRUE]>>]

\* PreemptiveSwitch.forward_next_message
PreemptiveSwitch_forward_next_message(s, sw, now) ==
  LET pq == s.switches[sw].priority_queue
      d == dequeue(pq)
  IN IF s.switches[sw].paused_transmissions # <<>>
     THEN resume_paused_transmission(
            [s EXCEPT !.switches[sw].paused_transmissions = sort_paused(s, @)],
            sw, now)
     ELSE IF is_empty(pq) \/ d.result = <<>>
     THEN [s EXCEPT !.switches[sw].is_transmitting = FALSE]
     ELSE LET message == d.result[1].message
              output_port == d.result[1].output_port
              link == OutputLink(sw, output_port)
              s1 == [s EXCEPT !.switches[sw].priority_queue = d.pq,
                              !.switches[sw].is_transmitting = TRUE,
                              !.dequeue_log = Append(@,
                                 [sw |-> sw, entry |-> d.result[1], before |-> pq])]
          IN IF link = NoName
             THEN [s1 EXCEPT !.switches[sw].is_transmitting = FALSE,
                             !.lost_messages = Append(@, message)]
             ELSE PreemptiveSwitch_start_transmission(s1, sw, message,
                                                      output_port, link, now)

\* variant: any higher priority preempts (difference >= 1)
should_preempt_adjacent(s, sw, m, now) ==
  /\ preemption_enabled
  /\ s.switches[sw].current_transmission # <<>>
  /\ s.messages[m + 1].priority
       - s.messages[s.switches[sw].current_transmission[1].message + 1].priority
       >= PriorityDiffThreshold - 1
  /\ (now - s.switches[sw].last_preemption_time) * 1000 >= MinPreemptionIntervalMs

\* the preemption test of PreemptiveSwitch.receive_message (lines 97-108)
should_preempt(s, sw, m, now) ==
  /\ preemption_enabled
  /\ s.switches[sw].current_transmission # <<>>
  /\ s.messages[m + 1].priority
       - s.messages[s.switches[sw].current_transmission[1].message + 1].priority
       >= PriorityDiffThreshold
  /\ (now - s.switches[sw].last_preemption_time) * 1000 >= MinPreemptionIntervalMs

\* variant: the time of a preemption is not kept in last_preemption_time
PreemptiveSwitch_receive_message_no_stamp(s, sw, m, now) ==
  LET s1 == [s EXCEPT !.switches[sw].messages_received = @ + 1]
      output_port == ForwardingTable(sw, s.messages[m + 1].dst_node)
      s2 == IF should_preempt(s1, sw, m, now)
            THEN preempt_current_transmission(s1, sw, now, m)
            ELSE s1
      c == capacity_check(s2, sw, m)
      s3 == [c.s EXCEPT !.switches[sw].priority_queue =
                enqueue(@, m, s.messages[m + 1].priority, output_port,
                        s1.switches[sw].messages_received)]
      s4 == log_admit(s3, s1, sw, m, now, c.outcome, c.victim)
  IN IF output_port = NoName
     THEN record_drop(s1, sw, m, "No forwarding entry", FALSE)
     ELSE IF ~c.accepted
     THEN log_admit(c.s, s1, sw, m, now, c.outcome, c.victim)
     ELSE IF ~s4.switches[sw].is_transmitting
     THEN end_admit(PreemptiveSwitch_forward_next_message(s4, sw, now), sw)
     ELSE s4

\* PreemptiveSwitch.receive_message
PreemptiveSwitch_receive_message(s, sw, m, now) ==
  LET s1 == [s EXCEPT !.switches[sw].messages_received = @ + 1]
      output_port == ForwardingTable(sw, s.messages[m + 1].dst_node)
      s2 == IF should_preempt(s1, sw, m, now)
            THEN [preempt_current_transmission(s1, sw, now, m)
                    EXCEPT !.switches[sw].last_preemption_time = now]
            ELSE s1
      c == capacity_check(s2, sw, m)
      s3 == [c.s EXCEPT !.switches[sw].priority_queue =
                enqueue(@, m, s.messages[m + 1].priority, output_port,
                        s1.switches[sw].messages_received)]
      s4 == log_admit(s3, s1, sw, m, now, c.outcome, c.victim)
  IN IF output_port = NoName
     THEN record_drop(s1, sw, m, "No forwarding entry", FALSE)
     ELSE IF ~c.accepted
     THEN log_admit(c.s, s1, sw, m, now, c.outcome, c.victim)
     ELSE IF ~s4.switches[sw].is_transmitting
     THEN end_admit(PreemptiveSwitch_forward_next_message(s4, sw, now), sw)
     ELSE s4

\* --------------------------------------------------------------- Network
\* Network.deliver_message: to a switch, to a node, or (unknown destination)
\* a printed warning only; kind is the class of the registered switches
deliver_message_as(kind, s, m, destination) ==
  IF destination \in SwitchNames
  THEN IF kind = "basic"
       THEN Switch_receive_message(s, destination, m, s.current_time)
       ELSE PreemptiveSwitch_receive_message(s, destination, m, s.current_time)
  ELSE IF destination \in Nodes
  THEN [Node_receive_message(s, destination, m, s.current_time)
          EXCEPT !.completed_messages = Append(@, m)]
  ELSE [s EXCEPT !.lost_messages = Append(@, m)]

\* Network.deliver_message in the network of this run
deliver_message(s, m, destination) ==
  deliver_message_as(switch_kind, s, m, destination)

\* PreemptiveSwitch._complete_transmission in a network whose registered
\* switches are of the class kind: the delivery goes through
\* Network.deliver_message to the object registered under the port's name
complete_transmission_as(kind, s, sw, message, output_port) ==
  LET ct == s.switches[sw].current_transmission
      s1 == IF ct # <<>> /\ ct[1].message = message
            THEN [s EXCEPT !.switches[sw].current_transmission = <<>>]
            ELSE s
  IN deliver_message_as(kind, s1, message, output_port)

\* PreemptiveSwitch._complete_transmission in the network of this run
complete_transmission(s, sw, message, output_port) ==
  complete_transmission_as(switch_kind, s, sw, message, output_port)

\* PreemptiveSwitch._transmission_slot_available
transmission_slot_available(s, sw, now) ==
  PreemptiveSwitch_forward_next_message(
    [s EXCEPT !.switches[sw].current_transmission = <<>>,
              !.switches[sw].is_transmitting = FALSE],
    sw, now)

\* ------------------------------------------------------- configurations
\* Stream(stream_id, priority, src_node, dst_node, message_interval_sec,
\* message_size_bytes) and the start_time given to Node.add_stream
Stream(stream_id, priority, src_node, dst_node, interval, size_bytes, start_time) ==
  [stream_id |-> stream_id, priority |-> priority, src_node |-> src_node,
   dst_node |-> dst_node, message_interval_sec |-> interval,
   message_size_bytes |-> size_bytes, start_time |-> start_time]

StreamIds == {1, 2, 3}

\* destinations of the three streams tried for each wiring
Destinations(topo) ==
  CASE topo = "star" -> {<<"C", "C", "C">>, <<"C", "A", "C">>}
    [] topo = "chain" -> {<<"C", "C", "C">>}
    [] topo = "faulty" -> {<<"C", "A", "C">>, <<"B", "X", "C">>}
    [] topo = "loop" -> {<<"C", "A", "C">>}
    [] topo = "direct" -> {<<"C", "C", "C">>}

\* the start times of stream 3; over direct links also sim_duration itself
StartTimes3(topo) == IF topo = "direct" THEN {1, 2, SimDuration} ELSE {1, 2}

StreamConfigs(topo) ==
  { [i \in StreamIds |->
       CASE i = 1 -> Stream(1, p1, "A", d[1], 2, 4, t1)
         [] i = 2 -> Stream(2, p2, "B", d[2], 3, z2, 0)
         [] i = 3 -> Stream(3, p3, "B", d[3], 4, 2, t3)] :
      p1 \in {0, 1, 3}, p2 \in {1, 3}, p3 \in {3, 7}, z2 \in {2, 4},
      t1 \in {0, MaxStart}, t3 \in StartTimes3(topo), d \in Destinations(topo) }

\* no call was made outside Network.run
NoCall == [op |-> "none"]

\* ------------------------------------------------------------------ Init
\* The state after the network is built, Network.add_stream and
\* Node.add_stream were called for streams 1, 2, 3 in this order (each
\* schedules the first generation at its start_time), before Network.run.
Init ==
  /\ topology \in Topologies
  /\ switch_kind \in (IF topology = "direct" THEN {"basic"} ELSE {"basic", "preemptive"})
  /\ preemption_enabled \in (IF switch_kind = "basic" THEN {FALSE} ELSE BOOLEAN)
  /\ max_queue_size \in (IF topology = "direct" THEN {None}
                         ELSE {None} \cup (0 .. MaxQueue))
  /\ streams \in StreamConfigs(topology)
  /\ phase = "running"
  /\ current_time = 0
  /\ event_queue = { [Event("generate", streams[i].src_node, i, None, NoName, NoName)
                        EXCEPT !.time = streams[i].start_time, !.priority = i - 1] :
                     i \in StreamIds }
  /\ event_counter = 3
  /\ message_id_counter = 0
  /\ messages = <<>>
  /\ completed_messages = <<>>
  /\ dropped_messages = <<>>
  /\ busy_until = [l \in Links |-> 0]
  /\ stream_seq_nums = [i \in StreamIds |-> 0]
  /\ node_received = [n \in Nodes |-> <<>>]
  /\ switches = [sw \in SwitchNames |-> NewSwitch]
  /\ dispatched = <<>>
  /\ lost_messages = <<>>
  /\ arrival_assignments = <<>>
  /\ dequeue_log = <<>>
  /\ admit_log = <<>>
  /\ preempt_log = <<>>
  /\ tx_log = <<>>
  /\ api = NoCall

\* ----------------------------------------------------------- Network.run
\* the event the next heappop returns
NextEvent == HeapTop(event_queue)

\* the loop condition of run holds and the popped event is not later than
\* sim_duration: the event is dispatched
CanDispatch(kind) ==
  /\ phase = "running"
  /\ event_queue # {}
  /\ current_time < sim_duration
  /\ NextEvent.time <= sim_duration
  /\ NextEvent.kind = kind

\* the state in which the handler of the popped event e runs
Popped(e) == [State EXCEPT !.event_queue = @ \ {e}, !.current_time = e.time]

\* the state a handler leaves behind becomes the next state
Commit(s, e) ==
  /\ current_time' = s.current_time
  /\ event_queue' = s.event_queue
  /\ event_counter' = s.event_counter
  /\ message_id_counter' = s.message_id_counter
  /\ messages' = s.messages
  /\ completed_messages' = s.completed_messages
  /\ dropped_messages' = s.dropped_messages
  /\ busy_until' = s.busy_until
  /\ stream_seq_nums' = s.stream_seq_nums
  /\ node_received' = s.node_received
  /\ switches' = s.switches
  /\ lost_messages' = s.lost_messages
  /\ arrival_assignments' = s.arrival_assignments
  /\ dequeue_log' = s.dequeue_log
  /\ admit_log' = s.admit_log
  /\ preempt_log' = s.preempt_log
  /\ tx_log' = s.tx_log
  /\ dispatched' = Append(dispatched,
        [time |-> e.time, priority |-> e.priority, kind |-> e.kind,
         counter |-> event_counter])
  /\ phase' = phase
  /\ UNCHANGED <<cfgvars, api>>

\* run dispatches a generation event: Node.generate_message
Generate ==
  /\ CanDispatch("generate")
  /\ LET e == NextEvent IN
     Commit(generate_message(Popped(e), e.target, e.stream, e.time), e)

\* run dispatches a delivery event: Network.deliver_message
Deliver ==
  /\ CanDispatch("deliver")
  /\ LET e == NextEvent IN
     Commit(deliver_message(Popped(e), e.msg, e.target), e)

\* run dispatches the slot event of a basic switch:
\* forward_next_message(link.busy_until), the link's busy_until being read
\* when the event fires
Forward ==
  /\ CanDispatch("forward")
  /\ LET e == NextEvent IN
     Commit(Switch_forward_next_message(Popped(e), e.target, busy_until[e.link]), e)

\* run dispatches the completion event of a preemptive switch
Complete ==
  /\ CanDispatch("complete")
  /\ LET e == NextEvent IN
     Commit(complete_transmission(Popped(e), e.target, e.msg, e.port), e)

\* run dispatches the slot event of a preemptive switch:
\* _transmission_slot_available(link.busy_until), read when the event fires
Slot ==
  /\ CanDispatch("slot")
  /\ LET e == NextEvent IN
     Commit(transmission_slot_available(Popped(e), e.target, busy_until[e.link]), e)

\* the while condition of run is false: the loop ends
LoopExit ==
  /\ phase = "running"
  /\ ~(event_queue # {} /\ current_time < sim_duration)
  /\ phase' = "done"
  /\ UNCHANGED <<cfgvars, current_time, event_queue, event_counter,
                 message_id_counter, messages, completed_messages,
                 dropped_messages, objvars, logvars, api>>

\* the popped event is later than sim_duration: break (the event is gone)
Break ==
  /\ phase = "running"
  /\ event_queue # {}
  /\ current_time < sim_duration
  /\ NextEvent.time > sim_duration
  /\ phase' = "done"
  /\ event_queue' = event_queue \ {NextEvent}
  /\ UNCHANGED <<cfgvars, current_time, event_counter, message_id_counter,
                 messages, completed_messages, dropped_messages, objvars, logvars,
                 api>>

Next ==
  \/ Generate
  \/ Deliver
  \/ Forward
  \/ Complete
  \/ Slot
  \/ LoopExit
  \/ Break

Spec == Init /\ [][Next]_vars

\* ------------------------------------- a second run of the configuration
\* the network as built for the configuration of this run, before run()
BuiltNetwork ==
  [current_time |-> 0,
   event_queue |-> { [Event("generate", streams[i].src_node, i, None, NoName, NoName)
                        EXCEPT !.time = streams[i].start_time, !.priority = i - 1] :
                     i \in StreamIds },
   event_counter |-> 3, message_id_counter |-> 0, messages |-> <<>>,
   completed_messages |-> <<>>, dropped_messages |-> <<>>,
   busy_until |-> [l \in Links |-> 0],
   stream_seq_nums |-> [i \in StreamIds |-> 0],
   node_received |-> [n \in Nodes |-> <<>>],
   switches |-> [sw \in SwitchNames |-> NewSwitch],
   lost_messages |-> <<>>, arrival_assignments |-> <<>>, dequeue_log |-> <<>>,
   admit_log |-> <<>>, preempt_log |-> <<>>, tx_log |-> <<>>]

\* a run before its first loop iteration: the network, the position of run
\* and the events dispatched so far
NewRun == [s |-> BuiltNetwork, phase |-> "running", dispatched |-> <<>>]

\* the rest of an iteration of the loop of Network.run after heappop has
\* returned the event e, on the run r of a network whose switches are of
\* the given kind
RunStepOn(kind, r, e) ==
  LET s == r.s
      p == [s EXCEPT !.event_queue = @ \ {e}, !.current_time = e.time]
  IN IF e.time > sim_duration
     THEN [r EXCEPT !.phase = "done", !.s.event_queue = @ \ {e}]
     ELSE [s |-> CASE e.kind = "generate" ->
                        generate_message(p, e.target, e.stream, e.time)
                   [] e.kind = "deliver" ->
                        deliver_message_as(kind, p, e.msg, e.target)
                   [] e.kind = "forward" ->
                        Switch_forward_next_message(p, e.target, s.busy_until[e.link])
                   [] e.kind = "complete" ->
                        complete_transmission_as(kind, p, e.target, e.msg, e.port)
                   [] e.kind = "slot" ->
                        transmission_slot_available(p, e.target, s.busy_until[e.link]),
           phase |-> "running",
           dispatched |-> Append(r.dispatched,
              [time |-> e.time, priority |-> e.priority, kind |-> e.kind,
               counter |-> s.event_counter])]

\* one iteration of the loop of Network.run on the run r of a network whose
\* switches are of the given kind
RunStep(kind, r) ==
  IF r.phase = "done" THEN r
  ELSE IF ~(r.s.event_queue # {} /\ r.s.current_time < sim_duration)
  THEN [r EXCEPT !.phase = "done"]
  ELSE RunStepOn(kind, r, HeapTop(r.s.event_queue))

\* Network.run from the run r to its end
RECURSIVE RunToEnd(_, _)
RunToEnd(kind, r) == IF r.phase = "done" THEN r ELSE RunToEnd(kind, RunStep(kind, r))

\* the times and insertion counters of a sequence of dispatched events
TimesOf(d) == [i \in 1 .. Len(d) |-> <<d[i].time, d[i].priority>>]

\* ======================================================================
\* Properties
\* ======================================================================
MsgIds == 0 .. (message_id_counter - 1)
Occurrences(q, x) == Cardinality({i \in 1 .. Len(q) : q[i] = x})
PriorityOf(m) == messages[m + 1].priority
Accepted(a) == a.outcome \in {"enqueue", "evict"}
\* the index in tx_log of the first transmission switch sw starts after
\* entry idx of tx_log (0: none yet)
NextTxOf(sw, idx) ==
  LET later == {j \in (idx + 1) .. Len(tx_log) : tx_log[j].sw = sw}
  IN IF later = {} THEN 0 ELSE Min(later)

\* C1: when Network.run has ended, every generated message is in exactly one
\* of completed_messages and dropped_messages, so that
\* |completed_messages| + |dropped_messages| = number of generated messages.
C1_Conservation ==
  phase = "done" =>
    /\ Len(completed_messages) + Len(dropped_messages) = message_id_counter
    /\ \A m \in MsgIds :
         Occurrences(completed_messages, m) + Occurrences(dropped_messages, m) = 1

\* C2: every message is delivered to a destination node at most once: it is
\* at most once in completed_messages and its arrival_time was assigned at
\* most once, also after it was preempted and resumed.
C2_DeliveredAtMostOnce ==
  \A m \in MsgIds :
    /\ Occurrences(completed_messages, m) <= 1
    /\ arrival_assignments[m + 1] <= 1

\* C3: when a preemptive switch preempts its current transmission for an
\* arriving message that is then accepted into the queue, the transmission
\* the switch starts next is a fresh transmission of that arriving message
\* (the paused message is resumed only later).
C3_PreemptorTransmitsNext ==
  \A i \in 1 .. Len(preempt_log) :
    LET p == preempt_log[i]
        n == NextTxOf(p.sw, p.tx_index)
    IN (Accepted(admit_log[p.admit_index]) /\ n # 0) =>
          /\ tx_log[n].kind = "fresh"
          /\ tx_log[n].msg = p.by

\* C4: at a basic switch every dequeued message has the highest priority of
\* all messages then in the switch queue and is, among the queued messages
\* of that priority, the one that arrived at the switch first.
C4_StrictPriorityFifo ==
  switch_kind = "basic" =>
    \A i \in 1 .. Len(dequeue_log) :
      LET d == dequeue_log[i] IN
      \A p \in Priorities : \A k \in 1 .. Len(d.before.queues[p]) :
        LET o == d.before.queues[p][k] IN
        /\ PriorityOf(d.entry.message) >= PriorityOf(o.message)
        /\ PriorityOf(o.message) = PriorityOf(d.entry.message) => d.entry.seq <= o.seq

\* a basic switch took a message out of a queue that held a message of
\* lower priority and a later arrival of the same priority
C4_Witness ==
  /\ switch_kind = "basic"
  /\ \E i \in 1 .. Len(dequeue_log) :
       LET d == dequeue_log[i]
           held == UNION {SeqToSet(d.before.queues[p]) : p \in Priorities}
       IN /\ \E o \in held : PriorityOf(o.message) < PriorityOf(d.entry.message)
          /\ \E o \in held : /\ PriorityOf(o.message) = PriorityOf(d.entry.message)
                             /\ o.seq > d.entry.seq

\* C5: during Network.run the times of the dispatched events, and so
\* current_time, never decrease.
C5_TimeMonotonic ==
  /\ \A i \in 1 .. (Len(dispatched) - 1) : dispatched[i].time <= dispatched[i + 1].time
  /\ dispatched # <<>> => current_time = dispatched[Len(dispatched)].time

\* C6: events scheduled for the same time are dispatched in the order of the
\* schedule_event calls (the insertion counter), also when scheduled from
\* inside a running handler.
C6_SameTimeInsertionOrder ==
  \A i \in 1 .. Len(dispatched) : \A j \in (i + 1) .. Len(dispatched) :
    dispatched[i].time = dispatched[j].time =>
      dispatched[i].priority < dispatched[j].priority

\* two events of the same time were dispatched, the second of which was
\* scheduled by a handler that ran at that very time
C6_Witness ==
  \E i \in 1 .. Len(dispatched) : \E j \in (i + 1) .. Len(dispatched) :
    /\ dispatched[i].time = dispatched[j].time
    /\ dispatched[j].priority >= dispatched[i].counter

\* C7: Network.run dispatches no event later than sim_duration and, when it
\* has ended, has dispatched every scheduled event whose time is <=
\* sim_duration (those at sim_duration included).
C7_DispatchesAllUpToDuration ==
  /\ \A i \in 1 .. Len(dispatched) : dispatched[i].time <= sim_duration
  /\ phase = "done" => \A e \in event_queue : e.time > sim_duration

\* C8: when a message arrives at a switch whose queue holds max_queue_size
\* messages and its priority is greater than the lowest priority in the
\* queue, exactly one queued message, of that lowest priority, is removed,
\* marked dropped with reason "Preempted by higher priority" and recorded in
\* dropped_messages, and the arriving message is enqueued: the queue is as
\* long as before, also when receive_message returns.
C8_PriorityAwareDrop ==
  \A i \in 1 .. Len(admit_log) :
    LET a == admit_log[i]
        low == Min(NonEmptyPriorities(a.before))
    IN (/\ max_queue_size # None
        /\ a.before.total_size = max_queue_size
        /\ NonEmptyPriorities(a.before) # {}
        /\ PriorityOf(a.msg) > low) =>
          /\ a.outcome = "evict"
          /\ \E k \in 1 .. Len(a.before.queues[low]) :
               /\ a.before.queues[low][k].message = a.victim
               /\ \A p \in Priorities :
                    LET q == a.before.queues[p]
                        kept == IF p = low
                                THEN SubSeq(q, 1, k - 1) \o SubSeq(q, k + 1, Len(q))
                                ELSE q
                    IN /\ p # PriorityOf(a.msg) => a.after.queues[p] = kept
                       /\ p = PriorityOf(a.msg) =>
                            /\ Len(a.after.queues[p]) = Len(kept) + 1
                            /\ SubSeq(a.after.queues[p], 1, Len(kept)) = kept
                            /\ a.after.queues[p][Len(kept) + 1].message = a.msg
          /\ a.victim_dropped
          /\ a.victim_reason = "Preempted by higher priority"
          /\ a.dropped_after = Append(a.dropped_before, a.victim)
          /\ a.after.total_size = max_queue_size
          /\ a.final.total_size = max_queue_size

\* a message of higher priority arrived at a full queue and a queued message
\* of the lowest priority was evicted, the queue holding two priorities
C8_Witness ==
  \E i \in 1 .. Len(admit_log) :
    /\ admit_log[i].outcome = "evict"
    /\ Cardinality(NonEmptyPriorities(admit_log[i].before)) >= 2

\* the next step of run delivers to a basic switch, whose queue is full, a
\* message routed there whose priority does not exceed the lowest queued one
TailDropCase ==
  /\ CanDispatch("deliver")
  /\ switch_kind = "basic"
  /\ NextEvent.target \in SwitchNames
  /\ ForwardingTable(NextEvent.target, messages[NextEvent.msg + 1].dst_node) # NoName
  /\ max_queue_size # None
  /\ switches[NextEvent.target].priority_queue.total_size = max_queue_size
  /\ NonEmptyPriorities(switches[NextEvent.target].priority_queue) # {}
  /\ PriorityOf(NextEvent.msg)
       <= Min(NonEmptyPriorities(switches[NextEvent.target].priority_queue))

\* C9: a message that arrives at a basic switch whose queue is full and
\* whose priority is not greater than the lowest queued priority is dropped
\* with reason "Buffer overflow (tail drop)" and recorded; the queue
\* contents, is_transmitting and every link's busy_until stay as they were.
C9_TailDropFrame ==
  [][TailDropCase =>
       /\ messages'[NextEvent.msg + 1].dropped
       /\ messages'[NextEvent.msg + 1].drop_reason = "Buffer overflow (tail drop)"
       /\ dropped_messages' = Append(dropped_messages, NextEvent.msg)
       /\ switches'[NextEvent.target].priority_queue
            = switches[NextEvent.target].priority_queue
       /\ switches'[NextEvent.target].is_transmitting
            = switches[NextEvent.target].is_transmitting
       /\ switches'[NextEvent.target].messages_dropped
            = switches[NextEvent.target].messages_dropped + 1
       /\ busy_until' = busy_until]_vars

\* a basic switch tail-dropped a priority-0 message that arrived at a full
\* queue whose lowest priority was 0
C9_Witness ==
  /\ switch_kind = "basic"
  /\ \E i \in 1 .. Len(admit_log) :
       /\ admit_log[i].outcome = "taildrop"
       /\ PriorityOf(admit_log[i].msg) = 0
       /\ Min(NonEmptyPriorities(admit_log[i].before)) = 0

\* the preemptions a receive_message call performed: the records it
\* appended to paused_transmissions
PreemptionsOf(i) == {k \in 1 .. Len(preempt_log) : preempt_log[k].admit_index = i}

\* C10: receive_message of a PreemptiveSwitch, for a message with a
\* forwarding entry, preempts (preemptions_count incremented, the current
\* transmission appended to paused_transmissions) if and only if
\* preemption_enabled, a current transmission exists, the priority
\* difference is >= 2 and now - last_preemption_time >= 0.001 s.
C10_PreemptionIff ==
  switch_kind = "preemptive" =>
    \A i \in 1 .. Len(admit_log) :
      LET a == admit_log[i]
          due == /\ preemption_enabled
                 /\ a.had_current
                 /\ PriorityOf(a.msg) - PriorityOf(a.current_msg) >= 2
                 /\ (a.now - a.last_preemption_time) * 1000 >= 1
      IN /\ due => /\ Cardinality(PreemptionsOf(i)) = 1
                    /\ \A k \in PreemptionsOf(i) :
                         /\ preempt_log[k].paused.message = a.current_msg
                         /\ preempt_log[k].by = a.msg
                         /\ preempt_log[k].sw = a.sw
                    /\ a.preemptions_after = a.preemptions_before + 1
         /\ ~due => /\ PreemptionsOf(i) = {}
                     /\ a.preemptions_after = a.preemptions_before

\* a preemption at a priority difference of exactly 2, and an arrival one
\* priority above the current transmission that did not preempt
C10_Witness ==
  /\ \E k \in 1 .. Len(preempt_log) :
       PriorityOf(preempt_log[k].by) - PriorityOf(preempt_log[k].paused.message) = 2
  /\ \E i \in 1 .. Len(admit_log) :
       /\ preemption_enabled
       /\ admit_log[i].had_current
       /\ PriorityOf(admit_log[i].msg) - PriorityOf(admit_log[i].current_msg) = 1
       /\ PreemptionsOf(i) = {}

\* C11: a PreemptiveSwitch with preemption_enabled = FALSE never preempts and
\* a run with such switches delivers and drops exactly what the run of the
\* same configuration with basic switches does: the same transmissions
\* (message, link, start), the same event times, the same completed and
\* dropped messages with the same arrival times and drop reasons.
C11_DisabledEqualsBasic ==
  (switch_kind = "preemptive" /\ ~preemption_enabled) =>
    /\ preempt_log = <<>>
    /\ \A sw \in SwitchNames : /\ switches[sw].preemptions_count = 0
                               /\ switches[sw].paused_transmissions = <<>>
    /\ phase = "done" =>
         LET b == RunToEnd("basic", NewRun) IN
         /\ completed_messages = b.s.completed_messages
         /\ dropped_messages = b.s.dropped_messages
         /\ messages = b.s.messages
         /\ node_received = b.s.node_received
         /\ lost_messages = b.s.lost_messages
         /\ tx_log = b.s.tx_log
         /\ busy_until = b.s.busy_until
         /\ TimesOf(dispatched) = TimesOf(b.dispatched)

\* a run with disabled preemption ended after a message at least two
\* priorities above the frame in transmission arrived, was queued and
\* messages were delivered
C11_Witness ==
  /\ switch_kind = "preemptive" /\ ~preemption_enabled
  /\ phase = "done"
  /\ completed_messages # <<>>
  /\ \E i \in 1 .. Len(admit_log) :
       /\ admit_log[i].had_current
       /\ Accepted(admit_log[i])
       /\ PriorityOf(admit_log[i].msg) - PriorityOf(admit_log[i].current_msg) >= 2

\* C12: for every preemption the paused record satisfies
\* bytes_transmitted + bytes_remaining = size_bytes of the message.
C12_PausedBytesAddUp ==
  \A k \in 1 .. Len(preempt_log) :
    preempt_log[k].paused.bytes_transmitted + preempt_log[k].paused.bytes_remaining
      = messages[preempt_log[k].paused.message + 1].size_bytes

\* a transmission was preempted part-way, and a resumed transmission was
\* preempted again
C12_Witness ==
  /\ \E k \in 1 .. Len(preempt_log) :
       /\ preempt_log[k].paused.bytes_transmitted > 0
       /\ preempt_log[k].paused.bytes_remaining > 0
  /\ \E k \in 1 .. Len(preempt_log) : preempt_log[k].resumed

\* C13: every message with dropped = TRUE has arrival_time = None and a
\* non-empty drop_reason, and every message in dropped_messages has
\* dropped = TRUE.
C13_DroppedNeverArrived ==
  /\ \A m \in MsgIds :
       messages[m + 1].dropped =>
         /\ messages[m + 1].arrival_time = None
         /\ messages[m + 1].drop_reason # ""
  /\ \A i \in 1 .. Len(dropped_messages) : messages[dropped_messages[i] + 1].dropped

\* the switch the next event of run hands a message to (NoName: none)
ArrivalSwitch ==
  IF event_queue = {} THEN NoName
  ELSE IF NextEvent.kind = "deliver" /\ NextEvent.target \in SwitchNames
  THEN NextEvent.target
  ELSE IF NextEvent.kind = "complete" /\ NextEvent.port \in SwitchNames
  THEN NextEvent.port
  ELSE NoName

\* the next step of run hands a switch a message for whose destination the
\* switch has no forwarding entry
NoEntryCase ==
  /\ phase = "running"
  /\ event_queue # {}
  /\ current_time < sim_duration
  /\ NextEvent.time <= sim_duration
  /\ ArrivalSwitch # NoName
  /\ ForwardingTable(ArrivalSwitch, messages[NextEvent.msg + 1].dst_node) = NoName

\* C14: a message that arrives at a switch without a forwarding entry for
\* its destination is marked dropped with reason "No forwarding entry" and
\* appended to dropped_messages; it is not enqueued, the queue, the
\* transmission state and the links stay as they were, nothing is scheduled
\* and the run goes on.
C14_NoForwardingEntry ==
  [][NoEntryCase =>
       /\ messages'[NextEvent.msg + 1].dropped
       /\ messages'[NextEvent.msg + 1].drop_reason = "No forwarding entry"
       /\ dropped_messages' = Append(dropped_messages, NextEvent.msg)
       /\ switches'[ArrivalSwitch].priority_queue = switches[ArrivalSwitch].priority_queue
       /\ switches'[ArrivalSwitch].is_transmitting = switches[ArrivalSwitch].is_transmitting
       /\ switches'[ArrivalSwitch].paused_transmissions
            = switches[ArrivalSwitch].paused_transmissions
       /\ NextEvent.kind = "deliver" =>
            switches'[ArrivalSwitch].current_transmission
              = switches[ArrivalSwitch].current_transmission
       /\ switches'[ArrivalSwitch].messages_dropped
            = switches[ArrivalSwitch].messages_dropped + 1
       /\ busy_until' = busy_until
       /\ event_queue' = event_queue \ {NextEvent}
       /\ phase' = "running"]_vars

\* a message was dropped for want of a forwarding entry at a switch that
\* was transmitting, and a message generated later was delivered
C14_Witness ==
  \E m \in MsgIds :
    /\ messages[m + 1].drop_reason = "No forwarding entry"
    /\ \E i \in 1 .. Len(completed_messages) : completed_messages[i] > m
    /\ \E sw \in SwitchNames : switches[sw].messages_forwarded > 0

\* the next step of run calls deliver_message with a destination that is
\* neither a registered node nor a registered switch
UnknownDestinationCase ==
  /\ phase = "running"
  /\ event_queue # {}
  /\ current_time < sim_duration
  /\ NextEvent.time <= sim_duration
  /\ \/ NextEvent.kind = "deliver" /\ NextEvent.target \notin (Nodes \cup SwitchNames)
     \/ NextEvent.kind = "complete" /\ NextEvent.port \notin (Nodes \cup SwitchNames)

\* C15: deliver_message called with an unknown destination marks the
\* message dropped, with a non-empty reason, and appends it to
\* dropped_messages; the run goes on.
C15_UnknownDestinationDropped ==
  [][UnknownDestinationCase =>
       /\ messages'[NextEvent.msg + 1].dropped
       /\ messages'[NextEvent.msg + 1].drop_reason # ""
       /\ dropped_messages' = Append(dropped_messages, NextEvent.msg)
       /\ phase' = "running"]_vars

\* C16: schedule_event refuses a time earlier than current_time, so that the
\* event queue never holds an event whose time is earlier than the time the
\* run has reached (and run can dispatch none).
C16_NoPastEvent ==
  \A e \in event_queue : e.time >= current_time

\* the events that run popped without dispatching them (the event later
\* than sim_duration at which run breaks): every scheduled event took a
\* counter, and is queued, dispatched or popped
PoppedLate == event_counter - Cardinality(event_queue) - Len(dispatched)

\* C17: Network.run terminates by reaching an empty event queue or by
\* popping an event later than sim_duration: a run that has ended has an
\* empty event queue or has popped such an event.
C17_EndsByQueueOrCutoff ==
  phase = "done" => (event_queue = {} \/ PoppedLate = 1)

\* ------------------------------------------------ two runs, side by side
\* heapq.heappop by its contract: a smallest item of the heap, one that no
\* other item is less than. Which one it returns among several smallest
\* items is left to the layout of the heap.
LeastEvents(q) == {e \in q : \A o \in q \ {e} : ~EventLess(o, e)}

\* the runs that one iteration of the loop of Network.run can make of the
\* run r, heappop returning any of the smallest events
RunStepAny(kind, r) ==
  IF r.phase = "done" THEN {r}
  ELSE IF ~(r.s.event_queue # {} /\ r.s.current_time < sim_duration)
  THEN {[r EXCEPT !.phase = "done"]}
  ELSE {RunStepOn(kind, r, e) : e \in LeastEvents(r.s.event_queue)}

\* the configurations that are run twice
TwinInit == Init

\* the configuration is built twice and net.run() is about to be called on
\* both networks
StartRuns ==
  /\ api = NoCall
  /\ api' = [op |-> "run", first |-> NewRun, second |-> NewRun]
  /\ UNCHANGED <<cfgvars, netvars, objvars, logvars>>

\* both runs make one iteration of the loop of Network.run, each with the
\* event its own heappop returns
StepRuns ==
  /\ api.op = "run"
  /\ api.first.phase = "running" \/ api.second.phase = "running"
  /\ \E r1 \in RunStepAny(switch_kind, api.first),
        r2 \in RunStepAny(switch_kind, api.second) :
       api' = [api EXCEPT !.first = r1, !.second = r2]
  /\ UNCHANGED <<cfgvars, netvars, objvars, logvars>>

TwinNext == StartRuns \/ StepRuns

TwinSpec == TwinInit /\ [][TwinNext]_vars

\* C18: two runs started from identical configurations (same topology,
\* streams, start times, sim_duration) dispatch identical sequences of
\* events and end with identical completed_messages and dropped_messages
\* lists (same messages, same order, same times and drop reasons): after
\* the same number of loop iterations, and when both have ended, the two
\* runs have dispatched the same events and hold the same lists, messages,
\* clock and event queue, whichever smallest event each heappop returned.
C18_TwoRunsAgree ==
  api.op = "run" =>
    /\ api.first.dispatched = api.second.dispatched
    /\ api.first.phase = api.second.phase
    /\ api.first.s.completed_messages = api.second.s.completed_messages
    /\ api.first.s.dropped_messages = api.second.s.dropped_messages
    /\ api.first.s.messages = api.second.s.messages
    /\ api.first.s.current_time = api.second.s.current_time
    /\ api.first.s.event_queue = api.second.s.event_queue

\* both runs ended with completed and dropped messages and a preemption,
\* having dispatched two events of the same time one after the other
C18_Witness ==
  /\ api.op = "run"
  /\ api.first.phase = "done" /\ api.second.phase = "done"
  /\ api.first.s.completed_messages # <<>>
  /\ api.second.s.dropped_messages # <<>>
  /\ api.first.s.preempt_log # <<>>
  /\ \E i \in 1 .. Len(api.second.dispatched) - 1 :
       api.second.dispatched[i].time = api.second.dispatched[i + 1].time

\* the messages generated so far for stream i
MessagesOfStream(i) == {j \in 1 .. Len(messages) : messages[j].stream_id = i}

\* C19: the messages of a stream added with start_time s are generated
\* exactly at the times s + k * interval_sec (k = 0, 1, ...) below
\* sim_duration, the k-th one with seq_num k: no message has a
\* creation_time >= sim_duration, every message of seq_num k was created at
\* s + k * interval_sec, the seq_nums of a stream are 0, 1, ... without gap
\* or repetition, and a finished run has generated every such time.
C19_GenerationTimes ==
  /\ \A j \in 1 .. Len(messages) :
       LET m == messages[j]
           st == streams[m.stream_id] IN
       /\ m.creation_time = st.start_time + m.seq_num * st.message_interval_sec
       /\ m.creation_time < sim_duration
  /\ \A i \in StreamIds :
       /\ Cardinality(MessagesOfStream(i)) = stream_seq_nums[i]
       /\ {messages[j].seq_num : j \in MessagesOfStream(i)} = 0 .. (stream_seq_nums[i] - 1)
       /\ phase = "done" =>
            \A k \in 0 .. sim_duration :
              streams[i].start_time + k * streams[i].message_interval_sec < sim_duration
                => k < stream_seq_nums[i]

\* stream i is the one stream of its source node, which has no next hop
\* and sends over its output link to the destination node, no faster than
\* the link transmits
SingleDirectStream(i) ==
  LET st == streams[i] IN
  /\ NextHop(st.src_node) = NoName
  /\ \A j \in StreamIds \ {i} : streams[j].src_node # st.src_node
  /\ st.message_interval_sec
       >= get_transmission_time(NodeLink(st.src_node), st.message_size_bytes)

\* transmission time of a message of stream i on the output link of its
\* source, plus the propagation delay of the link
EndToEndDelay(i) ==
  get_transmission_time(NodeLink(streams[i].src_node), streams[i].message_size_bytes)
    + LinkDelay

\* no message of stream i is delivered twice, and each delivered one
\* arrived EndToEndDelay after its creation
DelaysExact(i) ==
  \A j \in MessagesOfStream(i) :
    /\ Occurrences(completed_messages, j - 1) <= 1
    /\ Occurrences(completed_messages, j - 1) = 1 =>
         /\ node_received[streams[i].dst_node] # <<>>
         /\ messages[j].arrival_time - messages[j].creation_time = EndToEndDelay(i)

\* C20: for one stream sent directly over one link (no switch, no next
\* hop) with interval_sec >= transmission time, every generated message is
\* delivered exactly once, with end-to-end delay exactly transmission time +
\* propagation delay, so that consecutive delays are equal (jitter 0).
C20_DirectAllDelivered ==
  \A i \in StreamIds :
    SingleDirectStream(i) =>
      /\ DelaysExact(i)
      /\ phase = "done" =>
           \A j \in MessagesOfStream(i) : Occurrences(completed_messages, j - 1) = 1

\* Network.completed_by_stream[stream_id]: the deliveries of the stream's
\* messages to nodes, in order
completed_by_stream(stream_id) ==
  LET OfStream(m) == messages[m + 1].stream_id = stream_id
  IN SelectSeq(completed_messages, OfStream)

\* the deliveries whose Message.get_end_to_end_delay is not None
WithDelay(q) ==
  LET HasDelay(m) == messages[m + 1].arrival_time # None /\ ~messages[m + 1].dropped
  IN SelectSeq(q, HasDelay)

\* Network.get_stream_statistics: the counts it reports
get_stream_statistics(stream_id) ==
  LET msgs == completed_by_stream(stream_id)
      drops == Cardinality({k \in 1 .. Len(dropped_messages) :
                 messages[dropped_messages[k] + 1].stream_id = stream_id})
  IN IF msgs = <<>>
     THEN [total_messages |-> 0, dropped_messages |-> 0]
     ELSE IF WithDelay(msgs) = <<>>
     THEN [total_messages |-> Len(msgs), dropped_messages |-> 0]
     ELSE [total_messages |-> Len(msgs), dropped_messages |-> drops]

\* C21: at the end of a run get_stream_statistics reports, for every
\* registered stream, total_messages = the number of deliveries of the
\* stream's messages and dropped_messages = the number of entries of
\* dropped_messages that belong to the stream, also for a stream none of
\* whose messages was delivered.
C21_StreamStatisticsCounts ==
  phase = "done" =>
    \A i \in StreamIds :
      /\ get_stream_statistics(i).total_messages
           = Cardinality({k \in 1 .. Len(completed_messages) :
                           messages[completed_messages[k] + 1].stream_id = i})
      /\ get_stream_statistics(i).dropped_messages
           = Cardinality({k \in 1 .. Len(dropped_messages) :
                           messages[dropped_messages[k] + 1].stream_id = i})

\* the entry of tx_log that is the transmission cut short by the preemption
\* p: the current transmission of the switch, the last one it had started
PreemptedTx(p) == Max({j \in 1 .. p.tx_index : tx_log[j].sw = p.sw})

\* the time until which transmission j of tx_log puts bytes on its link: the
\* end of its serialization, or the time of its preemption if that is earlier
SegmentEnd(j) ==
  LET cuts == {preempt_log[i].paused.paused_at :
                 i \in {n \in 1 .. Len(preempt_log) : PreemptedTx(preempt_log[n]) = j}}
  IN IF cuts = {} THEN tx_log[j].end ELSE MinOf(tx_log[j].end, Min(cuts))

\* transmissions j and k of tx_log put bytes on the same link at the same time
Overlap(j, k) ==
  /\ tx_log[j].link = tx_log[k].link
  /\ MaxOf(tx_log[j].start, tx_log[k].start) < MinOf(SegmentEnd(j), SegmentEnd(k))

\* C22: on every link, driven by a node, a basic switch or a preemptive
\* switch, the serialization intervals of distinct transmission segments
\* never overlap (a preempted segment ends at its preemption, its resumption
\* is a new segment), so that no interval carries more bytes than the
\* bandwidth allows.
C22_SegmentsDisjoint ==
  \A j, k \in 1 .. Len(tx_log) : j < k => ~Overlap(j, k)

\* ------------------------------------------------ calls on a single Link
\* The network of a run with basic switches, before Network.run, on whose
\* links start_transmission is called directly.
FirstStreams ==
  [i \in StreamIds |->
     CASE i = 1 -> Stream(1, 0, "A", "C", 2, 4, 0)
       [] i = 2 -> Stream(2, 1, "B", "C", 3, 2, 0)
       [] i = 3 -> Stream(3, 3, "B", "C", 4, 2, 1)]

LinkInit ==
  /\ Init
  /\ topology = "star"
  /\ switch_kind = "basic"
  /\ max_queue_size = None
  /\ streams = FirstStreams

\* the links called: the output link of a node and a port of the switch
CalledLinks == {"A>", "S>C"}

\* link.start_transmission(current_time, size_bytes), for any current_time
\* (also one before the last call's) and any size (also 0)
StartTransmission ==
  \E l \in CalledLinks, now \in 0 .. MaxNow, k \in 0 .. MaxSize :
    /\ busy_until[l] <= MaxBusy
    /\ LET size_bytes == k * LinkRate(l)
           s == start_transmission(State, l, now, size_bytes)
       IN /\ busy_until' = s.busy_until
          /\ api' = [op |-> "start_transmission", link |-> l,
                     current_time |-> now, size_bytes |-> size_bytes,
                     busy_before |-> busy_until[l], result |-> ArrivalTime(s, l)]
    /\ UNCHANGED <<cfgvars, netvars, stream_seq_nums, node_received, switches,
                   logvars>>

LinkNext == StartTransmission

LinkSpec == LinkInit /\ [][LinkNext]_vars

\* C23: on a link used only by nodes and basic switches, busy_until never
\* decreases over any sequence of start_transmission calls, whatever the
\* current_time arguments and the message sizes (size 0 included).
C23_BusyUntilMonotonic ==
  [][switch_kind = "basic" =>
       \A l \in Links : busy_until'[l] >= busy_until[l]]_vars

\* a call of size 0 made with a current_time before the link's busy_until
C23_Witness ==
  /\ api.op = "start_transmission"
  /\ api.size_bytes = 0
  /\ api.current_time < api.busy_before
  /\ busy_until[api.link] = api.busy_before

\* ------------------------------------------------- one loop per switch
\* the output link of the message the next step of run hands to a switch
\* (NoName: no switch, no forwarding entry or no link on the port)
ArrivalLink ==
  IF ArrivalSwitch = NoName THEN NoName
  ELSE OutputLink(ArrivalSwitch,
                  ForwardingTable(ArrivalSwitch, messages[NextEvent.msg + 1].dst_node))

\* the next step of run hands a switch without a queue limit a message for
\* an output port whose link is idle, while the switch is transmitting on
\* another of its output ports
IdlePortCase ==
  /\ phase = "running"
  /\ event_queue # {}
  /\ current_time < sim_duration
  /\ NextEvent.time <= sim_duration
  /\ max_queue_size = None
  /\ ArrivalLink # NoName
  /\ busy_until[ArrivalLink] <= NextEvent.time
  /\ switches[ArrivalSwitch].is_transmitting
  /\ \E j \in 1 .. Len(tx_log) :
       /\ tx_log[j].sw = ArrivalSwitch
       /\ tx_log[j].link # ArrivalLink
       /\ tx_log[j].start <= NextEvent.time
       /\ NextEvent.time < busy_until[tx_log[j].link]

\* C24: a switch has its queues and its transmission loop per output port:
\* a message that arrives for an output port whose link is idle starts its
\* transmission on that link at its arrival time, even while the switch is
\* transmitting a message on a different output port.
C24_IdlePortStartsAtArrival ==
  [][IdlePortCase =>
       \E j \in (Len(tx_log) + 1) .. Len(tx_log') :
         /\ tx_log'[j].msg = NextEvent.msg
         /\ tx_log'[j].link = ArrivalLink
         /\ tx_log'[j].start = NextEvent.time]_vars

\* ------------------------------------- building streams before the run
\* variant: the upper limit of the priority check is 8
Stream_post_init_upto_8(priority) ==
  IF ~(0 <= priority /\ priority <= 8) THEN "ValueError" ELSE ""

\* Stream.__post_init__: the error it raises ("": none)
Stream_post_init(priority) ==
  IF ~(0 <= priority /\ priority <= 7) THEN "ValueError" ELSE ""

\* variant: the stream is registered and its first generation scheduled
\* before the source is compared with the node's name
Node_add_stream_late_check(s, registered, node, stream, start_time) ==
  LET s1 == [s EXCEPT !.stream_seq_nums[stream.stream_id] = 0]
      s2 == schedule_event(s1, start_time,
              Event("generate", node, stream.stream_id, None, NoName, NoName))
  IN [error |-> IF stream.src_node # node THEN "ValueError" ELSE "",
      streams |-> [registered EXCEPT ![stream.stream_id] =
                     [stream EXCEPT !.start_time = start_time]],
      s |-> s2]

\* Node.add_stream(stream, start_time) on the node named node: the error it
\* raises ("": none), the registered streams and the state it leaves
Node_add_stream(s, registered, node, stream, start_time) ==
  IF stream.src_node # node
  THEN [error |-> "ValueError", streams |-> registered, s |-> s]
  ELSE LET s1 == [s EXCEPT !.stream_seq_nums[stream.stream_id] = 0]
           s2 == schedule_event(s1, start_time,
                   Event("generate", node, stream.stream_id, None, NoName, NoName))
       IN [error |-> "",
           streams |-> [registered EXCEPT ![stream.stream_id] =
                          [stream EXCEPT !.start_time = start_time]],
           s |-> s2]

\* the network of LinkInit, its three streams added, before Network.run
SetupInit == LinkInit

\* the priorities tried: every valid one and the two next to them
PriorityInputs == -1 .. NumPriorities

\* Stream(stream_id, priority, ...): a stream like the registered one of the
\* same id, with any priority
NewStream ==
  \E i \in StreamIds, priority \in PriorityInputs :
    /\ api' = [op |-> "Stream", priority |-> priority,
               error |-> Stream_post_init(priority),
               result |-> IF Stream_post_init(priority) = ""
                          THEN <<[FirstStreams[i] EXCEPT !.priority = priority,
                                                         !.start_time = 0]>>
                          ELSE <<>>]
    /\ UNCHANGED <<cfgvars, netvars, objvars, logvars>>

\* the start times given to these calls of add_stream
AddStartTimes == {0, 2}

\* node.add_stream(stream, start_time) with the stream constructed last, on
\* any node
AddStream ==
  /\ api.op = "Stream"
  /\ api.result # <<>>
  /\ \E node \in Nodes, start_time \in AddStartTimes :
       LET stream == api.result[1]
           r == Node_add_stream(State, streams, node, stream, start_time)
       IN /\ r.error = "" => event_counter < 3 + MaxAdds
          /\ api' = [op |-> "add_stream", node |-> node, stream |-> stream,
                     start_time |-> start_time, error |-> r.error]
          /\ streams' = r.streams
          /\ stream_seq_nums' = r.s.stream_seq_nums
          /\ event_queue' = r.s.event_queue
          /\ event_counter' = r.s.event_counter
  /\ UNCHANGED <<switch_kind, preemption_enabled, max_queue_size, topology,
                 phase, current_time, message_id_counter, messages,
                 completed_messages, dropped_messages, busy_until,
                 node_received, switches, logvars>>

SetupNext == NewStream \/ AddStream

SetupSpec == SetupInit /\ [][SetupNext]_vars

\* the priority of the message Node.generate_message makes for stream i
GeneratedPriority(i) ==
  LET s == generate_message(State, streams[i].src_node, i, streams[i].start_time)
  IN s.messages[Len(s.messages)].priority

\* C25: constructing a Stream with a priority outside 0..7 (-1 or 8, say)
\* is rejected with an error and every priority in 0..7 is accepted, so
\* every message generated from a stream has a priority in 0..7.
C25_StreamPriorityChecked ==
  /\ api.op = "Stream" =>
       /\ api.error = "ValueError" <=> api.priority \notin 0 .. 7
       /\ api.priority \in 0 .. 7 =>
            Len(api.result) = 1 /\ api.result[1].priority = api.priority
  /\ \A i \in StreamIds :
       streams[i].priority \in 0 .. 7 /\ GeneratedPriority(i) \in 0 .. 7

\* Stream(..., 8, ...) was rejected after a stream of priority 7 was
\* constructed and added to its node
C25_Witness ==
  /\ api.op = "Stream"
  /\ api.priority = 8
  /\ api.error = "ValueError"
  /\ event_counter > 3
  /\ \E i \in StreamIds : streams[i].priority = 7

\* C26: Node.add_stream with a stream whose src_node is not the node's name
\* fails with an error and leaves the node's streams, its sequence counters
\* and the network's event queue as they were: no generation is scheduled.
C26_AddStreamMismatch ==
  [][(api' # api /\ api'.op = "add_stream" /\ api'.stream.src_node # api'.node) =>
       /\ api'.error = "ValueError"
       /\ UNCHANGED <<streams, stream_seq_nums, event_queue, event_counter>>]_vars

\* add_stream failed on a node that is not the stream's source, after a
\* stream was added to its own node
C26_Witness ==
  /\ api.op = "add_stream"
  /\ api.stream.src_node # api.node
  /\ api.error = "ValueError"
  /\ event_counter > 3

\* ------------------------------------------------- CollectivePatterns
\* the node names of test_collectives: N0, N1, ...
NodeNames(n) == [i \in 1 .. n |-> "N" \o ToString(i - 1)]

\* CollectivePatterns.__init__
CollectivePatterns(node_names, base_stream_id) ==
  [op |-> "CollectivePatterns", node_names |-> node_names,
   num_nodes |-> Len(node_names), base_stream_id |-> base_stream_id,
   next_stream_id |-> base_stream_id, calls |-> 0, priority |-> None,
   error |-> "", result |-> <<>>]

\* variant: a stream is made for every pair of names
SendsTo_every(src, dst) == TRUE

\* all_to_all: "if src != dst"
SendsTo(src, dst) == src # dst

\* the two nested loops of all_to_all from their k-th iteration on (the
\* src loop outside, the dst loop inside); p carries next_stream_id, which
\* _get_stream_id returns and increments, and the list of streams so far.
\* _get_stream_id is evaluated in the argument list of Stream(...), so the
\* id is already taken when Stream.__post_init__ raises; the exception ends
\* the call and the list built so far is not returned.
RECURSIVE all_to_all_loop(_, _, _, _, _)
all_to_all_loop(p, k, priority, message_size_bytes, interval_sec) ==
  LET n == Len(p.node_names)
      src == p.node_names[((k - 1) \div n) + 1]
      dst == p.node_names[((k - 1) % n) + 1]
  IN IF k > n * n THEN p
     ELSE IF ~SendsTo(src, dst)
     THEN all_to_all_loop(p, k + 1, priority, message_size_bytes, interval_sec)
     ELSE IF Stream_post_init(priority) # ""
     THEN [p EXCEPT !.next_stream_id = @ + 1,
                    !.error = Stream_post_init(priority), !.result = <<>>]
     ELSE all_to_all_loop(
            [p EXCEPT !.next_stream_id = @ + 1,
                      !.result = Append(@, Stream(p.next_stream_id, priority, src,
                                                  dst, interval_sec,
                                                  message_size_bytes, 0))],
            k + 1, priority, message_size_bytes, interval_sec)

\* CollectivePatterns.all_to_all(priority, message_size_bytes, interval_sec)
\* on the object p: the object afterwards, with the list it returns
all_to_all(p, priority, message_size_bytes, interval_sec) ==
  all_to_all_loop([p EXCEPT !.op = "all_to_all", !.calls = @ + 1,
                            !.priority = priority, !.error = "",
                            !.result = <<>>],
                  1, priority, message_size_bytes, interval_sec)

\* stream = Stream(stream_id=self._get_stream_id(), priority=priority,
\* src_node=src, dst_node=dst, ...); streams.append(stream): the id is taken
\* before Stream.__post_init__ checks the priority
new_stream(p, priority, src, dst, message_size_bytes, interval_sec) ==
  LET p1 == [p EXCEPT !.next_stream_id = @ + 1]
  IN IF Stream_post_init(priority) # ""
     THEN [p1 EXCEPT !.error = Stream_post_init(priority), !.result = <<>>]
     ELSE [p1 EXCEPT !.result = Append(@, Stream(p.next_stream_id, priority, src,
                                                 dst, interval_sec,
                                                 message_size_bytes, 0))]

\* the streams made one after the other for the pairs <<src, dst>> of the
\* sequence pairs, from the k-th on, until one raises
RECURSIVE add_streams(_, _, _, _, _, _)
add_streams(p, pairs, k, priority, message_size_bytes, interval_sec) ==
  IF k > Len(pairs) \/ p.error # "" THEN p
  ELSE add_streams(new_stream(p, priority, pairs[k][1], pairs[k][2],
                              message_size_bytes, interval_sec),
                   pairs, k + 1, priority, message_size_bytes, interval_sec)

\* the sequences of seqs one after the other
RECURSIVE Flatten(_)
Flatten(seqs) ==
  IF seqs = <<>> THEN <<>> ELSE Head(seqs) \o Flatten(Tail(seqs))

\* the object at the start of a call of one of its methods
begin_call(p, op, priority) ==
  [p EXCEPT !.op = op, !.calls = @ + 1, !.priority = priority, !.error = "",
            !.result = <<>>]

\* CollectivePatterns.all_reduce(priority, message_size_bytes, interval_sec)
\* on the object p: every node but the root (the first name) sends to the
\* root, then the root sends to every other node. node_names[0] raises
\* IndexError on an empty list.
all_reduce(p, priority, message_size_bytes, interval_sec) ==
  LET p0 == begin_call(p, "all_reduce", priority)
  IN IF p.node_names = <<>> THEN [p0 EXCEPT !.error = "IndexError"]
     ELSE LET root == p.node_names[1]
              others == SelectSeq(p.node_names, LAMBDA x : x # root)
              reduce == [i \in 1 .. Len(others) |-> <<others[i], root>>]
              broadcast == [i \in 1 .. Len(others) |-> <<root, others[i]>>]
          IN add_streams(p0, reduce \o broadcast, 1, priority,
                         message_size_bytes, interval_sec)

\* the racks of the hierarchical collectives: num_nodes // nodes_per_rack
\* slices of nodes_per_rack names each
Racks(node_names, nodes_per_rack) ==
  [r \in 1 .. (Len(node_names) \div nodes_per_rack) |->
     SubSeq(node_names, (r - 1) * nodes_per_rack + 1, r * nodes_per_rack)]

\* "for src in nodes: for dst in nodes: if src != dst" as a sequence of pairs
PairsAmong(nodes) ==
  LET n == Len(nodes)
      all == [k \in 1 .. n * n |->
                <<nodes[((k - 1) \div n) + 1], nodes[((k - 1) % n) + 1]>>]
  IN SelectSeq(all, LAMBDA pr : pr[1] # pr[2])

\* CollectivePatterns.hierarchical_all_to_all(priority, message_size_bytes,
\* interval_sec, nodes_per_rack) on the object p: all-to-all inside each
\* rack, all-to-all among the first nodes of the racks, then each first
\* node to the rest of its rack
hierarchical_all_to_all(p, priority, message_size_bytes, interval_sec, nodes_per_rack) ==
  LET racks == Racks(p.node_names, nodes_per_rack)
      intra == Flatten([r \in 1 .. Len(racks) |-> PairsAmong(racks[r])])
      representatives == [r \in 1 .. Len(racks) |-> racks[r][1]]
      inter == PairsAmong(representatives)
      dist == Flatten([r \in 1 .. Len(racks) |->
                         [i \in 1 .. Len(racks[r]) - 1 |->
                            <<racks[r][1], racks[r][i + 1]>>]])
  IN add_streams(begin_call(p, "hierarchical_all_to_all", priority),
                 intra \o inter \o dist, 1, priority,
                 message_size_bytes, interval_sec)

\* CollectivePatterns.hierarchical_all_reduce(priority, message_size_bytes,
\* interval_sec, nodes_per_rack) on the object p: each rack to its first
\* node, the first nodes of the other racks to the global root, the root
\* back to them, each first node to the rest of its rack. racks[0][0]
\* raises IndexError when there is no rack (nothing was made before it).
hierarchical_all_reduce(p, priority, message_size_bytes, interval_sec, nodes_per_rack) ==
  LET racks == Racks(p.node_names, nodes_per_rack)
      p0 == begin_call(p, "hierarchical_all_reduce", priority)
  IN IF racks = <<>> THEN [p0 EXCEPT !.error = "IndexError"]
     ELSE LET local_reduce ==
                Flatten([r \in 1 .. Len(racks) |->
                           [i \in 1 .. Len(racks[r]) - 1 |->
                              <<racks[r][i + 1], racks[r][1]>>]])
              global_root == racks[1][1]
              global_reduce == [r \in 1 .. Len(racks) - 1 |->
                                  <<racks[r + 1][1], global_root>>]
              global_bcast == [r \in 1 .. Len(racks) - 1 |->
                                 <<global_root, racks[r + 1][1]>>]
              local_bcast ==
                Flatten([r \in 1 .. Len(racks) |->
                           [i \in 1 .. Len(racks[r]) - 1 |->
                              <<racks[r][1], racks[r][i + 1]>>]])
          IN add_streams(p0, local_reduce \o global_reduce \o global_bcast
                               \o local_bcast,
                         1, priority, message_size_bytes, interval_sec)

\* the base stream ids tried: the default and the one test_collectives sets
BaseStreamIds == {1000, 2000}

\* the methods of CollectivePatterns that make streams, and its constructor
PatternOps == {"CollectivePatterns", "all_to_all", "all_reduce",
               "hierarchical_all_to_all", "hierarchical_all_reduce"}

\* the nodes_per_rack tried: the default 4 and 2
RackSizes == {2, 4}

PatternInit == LinkInit

\* CollectivePatterns(node_names, base_stream_id) for up to MaxNodes names
NewPatterns ==
  \E n \in 0 .. MaxNodes, base_stream_id \in BaseStreamIds :
    /\ api' = CollectivePatterns(NodeNames(n), base_stream_id)
    /\ UNCHANGED <<cfgvars, netvars, objvars, logvars>>

\* patterns.all_to_all(priority, 1000, 1) on the object made last
AllToAll ==
  /\ api.op \in PatternOps
  /\ api.calls < MaxCalls
  /\ \E priority \in PriorityInputs : api' = all_to_all(api, priority, 1000, 1)
  /\ UNCHANGED <<cfgvars, netvars, objvars, logvars>>

\* patterns.all_reduce(priority, 1000, 1) on the object made last
AllReduce ==
  /\ api.op \in PatternOps
  /\ api.calls < MaxCalls
  /\ \E priority \in PriorityInputs : api' = all_reduce(api, priority, 1000, 1)
  /\ UNCHANGED <<cfgvars, netvars, objvars, logvars>>

\* patterns.hierarchical_all_to_all(priority, 1000, 1, nodes_per_rack) on
\* the object made last
HierarchicalAllToAll ==
  /\ api.op \in PatternOps
  /\ api.calls < MaxCalls
  /\ \E priority \in PriorityInputs, nodes_per_rack \in RackSizes :
       api' = hierarchical_all_to_all(api, priority, 1000, 1, nodes_per_rack)
  /\ UNCHANGED <<cfgvars, netvars, objvars, logvars>>

\* patterns.hierarchical_all_reduce(priority, 1000, 1, nodes_per_rack) on
\* the object made last
HierarchicalAllReduce ==
  /\ api.op \in PatternOps
  /\ api.calls < MaxCalls
  /\ \E priority \in PriorityInputs, nodes_per_rack \in RackSizes :
       api' = hierarchical_all_reduce(api, priority, 1000, 1, nodes_per_rack)
  /\ UNCHANGED <<cfgvars, netvars, objvars, logvars>>

PatternNext ==
  \/ NewPatterns
  \/ AllToAll
  \/ AllReduce
  \/ HierarchicalAllToAll
  \/ HierarchicalAllReduce

PatternSpec == PatternInit /\ [][PatternNext]_vars

\* C27: all_to_all over N distinct node names returns exactly N * (N - 1)
\* streams: exactly one for each ordered pair (src, dst) with src # dst,
\* none with src = dst, each with a distinct stream_id (56 streams for 8
\* nodes). A call that raises returns nothing.
C27_AllToAllPairs ==
  (api.op = "all_to_all" /\ api.error = "") =>
    LET n == Len(api.node_names)
        r == api.result
    IN /\ Len(r) = n * (n - 1)
       /\ n = 8 => Len(r) = 56
       /\ \A a, b \in 1 .. n :
            Cardinality({j \in 1 .. Len(r) :
                           /\ r[j].src_node = api.node_names[a]
                           /\ r[j].dst_node = api.node_names[b]})
              = (IF a = b THEN 0 ELSE 1)
       /\ \A i, j \in 1 .. Len(r) : i # j => r[i].stream_id # r[j].stream_id

\* an all_to_all call on an object of 8 nodes, made after another
\* collective of the same object had taken stream ids, returned 56 streams
C27_Witness ==
  /\ api.op = "all_to_all"
  /\ api.error = ""
  /\ Len(api.node_names) = 8
  /\ api.calls = 2
  /\ Len(api.result) = 56
  /\ api.result[1].stream_id > api.base_stream_id

\* ----------------------------------- the events of a preempted segment
\* the insertion counters of the completion event and of the slot event that
\* were scheduled for the transmission the preemption p cut short (they are
\* scheduled one after the other when the transmission starts or resumes)
EventsOfPreempted(p) ==
  {tx_log[PreemptedTx(p)].events, tx_log[PreemptedTx(p)].events + 1}

\* the dispatched events that had been scheduled for a transmission that was
\* preempted before they fired
DispatchedAfterPreemption ==
  {k \in 1 .. Len(dispatched) :
     \E i \in 1 .. Len(preempt_log) :
       dispatched[k].priority \in EventsOfPreempted(preempt_log[i])}

\* C28: after a preemptive switch preempts a transmission, neither the
\* completion handler nor the slot handler scheduled for the preempted
\* segment is ever executed, so the preempted message reaches the next hop
\* only through the completion event scheduled when it is resumed.
C28_PreemptedEventsNeverRun == DispatchedAfterPreemption = {}

\* ------------------------------------------------- repeated preemption
\* preemption k paused, after preemption i, the same message at the same
\* switch
LaterPauseOf(i, k) ==
  /\ i < k
  /\ preempt_log[i].sw = preempt_log[k].sw
  /\ preempt_log[i].paused.message = preempt_log[k].paused.message

\* C29: for a message preempted more than once at the same preemptive
\* switch, the bytes_remaining recorded at each later pause is at most the
\* bytes_remaining recorded at the previous pause: bytes serialized before an
\* earlier pause are never counted as remaining again.
C29_RemainingNeverGrows ==
  \A i, k \in 1 .. Len(preempt_log) :
    LaterPauseOf(i, k) =>
      preempt_log[k].paused.bytes_remaining <= preempt_log[i].paused.bytes_remaining

\* ---------------------------------------------- preemption cool-down
\* C30: any two preemptions performed by the same preemptive switch are
\* separated by at least min_preemption_interval of simulation time,
\* whatever burst of higher-priority messages arrives.
C30_PreemptionsSpaced ==
  \A i, k \in 1 .. Len(preempt_log) :
    (i < k /\ preempt_log[i].sw = preempt_log[k].sw) =>
      (preempt_log[k].paused.paused_at - preempt_log[i].paused.paused_at) * 1000
        >= MinPreemptionIntervalMs

\* a switch that had preempted twice was transmitting when a message at
\* least two priorities higher arrived at the very time of its last
\* preemption, and did not preempt
C30_Witness ==
  \E i \in 1 .. Len(admit_log) :
    /\ admit_log[i].had_current
    /\ PriorityOf(admit_log[i].msg) - PriorityOf(admit_log[i].current_msg)
         >= PriorityDiffThreshold
    /\ admit_log[i].now = admit_log[i].last_preemption_time
    /\ PreemptionsOf(i) = {}
    /\ Cardinality({k \in 1 .. Len(preempt_log) :
                      /\ preempt_log[k].sw = admit_log[i].sw
                      /\ preempt_log[k].admit_index < i}) >= 2

\* ------------------------------------------- calls on a PriorityQueue
\* the priorities of the messages enqueued: the lowest, the highest, one
\* between
QueuePriorities == {0, 3, 7}

QueueOps == {"PriorityQueue", "enqueue", "dequeue", "get_lowest_priority_message",
             "drop_lowest_priority_message"}

\* a call on the queue object: the queue before and after it, what the call
\* returned (<<>>: None) and the number of enqueue calls so far
QueueCall(op, before, pq, result, enqueued) ==
  [op |-> op, before |-> before, pq |-> pq, result |-> result,
   enqueued |-> enqueued]

QueueInit == LinkInit

\* PriorityQueue()
NewQueue ==
  /\ api' = QueueCall("PriorityQueue", EmptyPriorityQueue, EmptyPriorityQueue, <<>>, 0)
  /\ UNCHANGED <<cfgvars, netvars, objvars, logvars>>

\* queue.enqueue(message, "C") for a new message of any of the priorities
Enqueue ==
  /\ api.op \in QueueOps
  /\ api.enqueued < MaxEnqueues
  /\ \E priority \in QueuePriorities :
       api' = QueueCall("enqueue", api.pq,
                        enqueue(api.pq, api.enqueued, priority, "C", api.enqueued + 1),
                        <<>>, api.enqueued + 1)
  /\ UNCHANGED <<cfgvars, netvars, objvars, logvars>>

\* queue.dequeue(), also on an empty queue
Dequeue ==
  /\ api.op \in QueueOps
  /\ api' = QueueCall("dequeue", api.pq, dequeue(api.pq).pq,
                      dequeue(api.pq).result, api.enqueued)
  /\ UNCHANGED <<cfgvars, netvars, objvars, logvars>>

\* queue.get_lowest_priority_message()
GetLowest ==
  /\ api.op \in QueueOps
  /\ api' = QueueCall("get_lowest_priority_message", api.pq, api.pq,
                      get_lowest_priority_message(api.pq), api.enqueued)
  /\ UNCHANGED <<cfgvars, netvars, objvars, logvars>>

\* queue.drop_lowest_priority_message(), also on an empty queue
DropLowest ==
  /\ api.op \in QueueOps
  /\ api' = QueueCall("drop_lowest_priority_message", api.pq,
                      drop_lowest_priority_message(api.pq).pq,
                      drop_lowest_priority_message(api.pq).result, api.enqueued)
  /\ UNCHANGED <<cfgvars, netvars, objvars, logvars>>

QueueNext == NewQueue \/ Enqueue \/ Dequeue \/ GetLowest \/ DropLowest

QueueSpec == QueueInit /\ [][QueueNext]_vars

\* the sum of the lengths of the per-priority queues
RECURSIVE SumOfLengths(_, _)
SumOfLengths(queues, P) ==
  IF P = {} THEN 0
  ELSE LET p == CHOOSE x \in P : TRUE
       IN Len(queues[p]) + SumOfLengths(queues, P \ {p})

\* C31: after any sequence of PriorityQueue operations (enqueue, dequeue,
\* drop_lowest_priority_message, also dequeue and drop on an empty queue)
\* total_size is the sum of the lengths of the eight per-priority queues and
\* is never negative.
C31_TotalSizeIsSum ==
  api.op \in QueueOps =>
    /\ api.pq.total_size = SumOfLengths(api.pq.queues, Priorities)
    /\ api.pq.total_size >= 0

\* drop_lowest_priority_message was called on a queue emptied again after
\* two or more enqueue calls, and returned None
C31_Witness ==
  /\ api.op = "drop_lowest_priority_message"
  /\ api.enqueued >= 2
  /\ api.before.total_size = 0
  /\ api.result = <<>>
  /\ api.pq.total_size = 0

\* the entry of the non-empty queue pq that was enqueued first among those
\* of the lowest non-empty priority
OldestOfLowest(pq) == Head(pq.queues[Min(NonEmptyPriorities(pq))])

\* C32: on a non-empty PriorityQueue get_lowest_priority_message returns,
\* and drop_lowest_priority_message removes, the oldest-enqueued message of
\* the lowest non-empty priority; both refer to the same element.
C32_LowestIsOldest ==
  /\ (api.op = "get_lowest_priority_message" /\ ~is_empty(api.before)) =>
       /\ api.result # <<>>
       /\ api.result[1].priority = Min(NonEmptyPriorities(api.before))
       /\ api.result[1].entry = OldestOfLowest(api.before)
  /\ (api.op = "drop_lowest_priority_message" /\ ~is_empty(api.before)) =>
       /\ api.result = <<OldestOfLowest(api.before)>>
       /\ api.result[1] = get_lowest_priority_message(api.before)[1].entry
       /\ api.pq.queues[Min(NonEmptyPriorities(api.before))]
            = Tail(api.before.queues[Min(NonEmptyPriorities(api.before))])

\* --------------------------------------- dequeue only for an idle link
\* the fresh transmissions the switches started in this step
FreshStarted ==
  {j \in (Len(tx_log) + 1) .. Len(tx_log') :
     tx_log'[j].sw \in SwitchNames /\ tx_log'[j].kind = "fresh"}

\* C33: a switch, basic or preemptive, dequeues a message for a fresh
\* transmission only when the chosen output link is idle: the time passed to
\* forward_next_message is the simulation time of the dequeue and the link's
\* busy_until is not later, so the transmission starts at that time.
C33_DequeueOnIdleLink ==
  [][\A j \in FreshStarted :
       /\ tx_log'[j].now = current_time'
       /\ tx_log'[j].start = current_time']_vars

\* ------------------------------------------------- idle with work left
\* C34: after every handler that touches a preemptive switch returns, if
\* is_transmitting is false then its priority queue and its
\* paused_transmissions are empty: the switch is never left idle while a
\* queued or paused message waits, not even after a receive that preempts
\* the current transmission and then tail-drops the arriving message.
C34_IdleMeansNothingWaits ==
  switch_kind = "preemptive" =>
    \A sw \in SwitchNames :
      ~switches[sw].is_transmitting =>
        /\ switches[sw].priority_queue.total_size = 0
        /\ switches[sw].paused_transmissions = <<>>

\* --------------------------------------------- the loop of a basic switch
\* the destinations a message can have
Destinations_all == Nodes \cup {"X"}

\* every port of the forwarding table of every switch has an output link
AllPortsLinked ==
  \A sw \in SwitchNames : \A dst \in Destinations_all :
    ForwardingTable(sw, dst) # NoName =>
      OutputLink(sw, ForwardingTable(sw, dst)) # NoName

\* the pending slot events of switch sw: the scheduled calls of
\* forward_next_message
PendingSlots(sw) ==
  {e \in event_queue : e.kind = "forward" /\ e.target = sw}

\* C35: for a basic switch every forwarding-table port of which has an
\* output link, after every handler returns: is_transmitting = FALSE implies
\* that the switch queue is empty, and is_transmitting = TRUE implies that
\* exactly one slot event of that switch is pending in the event queue.
C35_BasicLoopState ==
  (switch_kind = "basic" /\ AllPortsLinked /\ phase = "running") =>
    \A sw \in SwitchNames :
      /\ ~switches[sw].is_transmitting =>
           switches[sw].priority_queue.total_size = 0
      /\ switches[sw].is_transmitting => Cardinality(PendingSlots(sw)) = 1

\* a basic switch went idle with an empty queue after it had forwarded
\* messages, a message having waited in its queue during a transmission
C35_Witness ==
  /\ switch_kind = "basic" /\ AllPortsLinked /\ phase = "running"
  /\ \E sw \in SwitchNames :
       /\ ~switches[sw].is_transmitting
       /\ switches[sw].messages_forwarded >= 2
       /\ \E i \in 1 .. Len(admit_log) :
            /\ admit_log[i].sw = sw
            /\ admit_log[i].was_transmitting
            /\ Accepted(admit_log[i])

\* ------------------------------------------------------ the queue bound
\* C36: for every switch, basic or preemptive, with max_queue_size set, the
\* number of queued messages never exceeds max_queue_size, neither when a
\* handler returns nor right after receive_message has enqueued a message
\* (the message in transmission and the paused ones are not counted).
C36_QueueWithinBound ==
  max_queue_size # None =>
    /\ \A sw \in SwitchNames :
         switches[sw].priority_queue.total_size <= max_queue_size
    /\ \A i \in 1 .. Len(admit_log) :
         /\ admit_log[i].after.total_size <= max_queue_size
         /\ admit_log[i].final.total_size <= max_queue_size

\* a queue of two was filled by an arrival, and a later arrival at the same
\* switch found it full and was taken in place of a queued message
C36_Witness ==
  /\ max_queue_size = 2
  /\ \E i, k \in 1 .. Len(admit_log) :
       /\ i < k
       /\ admit_log[i].sw = admit_log[k].sw
       /\ admit_log[i].outcome = "enqueue"
       /\ admit_log[i].after.total_size = max_queue_size
       /\ admit_log[k].outcome = "evict"
       /\ admit_log[k].before.total_size = max_queue_size

\* ------------------------------------------------- the switch counters
\* the sum of messages_dropped over the switches of S
RECURSIVE SumOfDropped(_)
SumOfDropped(S) ==
  IF S = {} THEN 0
  ELSE LET sw == CHOOSE x \in S : TRUE
       IN switches[sw].messages_dropped + SumOfDropped(S \ {sw})

\* C37: for every switch, basic or preemptive, every forwarding-table port
\* of which has an output link, after every handler messages_received =
\* messages_forwarded + messages_dropped + priority_queue.total_size, and
\* the length of the network's dropped_messages is the sum of
\* messages_dropped over all switches.
C37_CountersBalance ==
  AllPortsLinked =>
    /\ \A sw \in SwitchNames :
         switches[sw].messages_received =
           switches[sw].messages_forwarded + switches[sw].messages_dropped
             + switches[sw].priority_queue.total_size
    /\ Len(dropped_messages) = SumOfDropped(SwitchNames)

\* a preemptive switch that has preempted a transmission, has dropped a
\* message and holds a queued message while another was forwarded
C37_Witness ==
  /\ AllPortsLinked
  /\ switch_kind = "preemptive"
  /\ \E sw \in SwitchNames :
       /\ switches[sw].preemptions_count >= 1
       /\ switches[sw].messages_dropped >= 1
       /\ switches[sw].messages_forwarded >= 2
       /\ switches[sw].priority_queue.total_size >= 1

\* ------------------------------------------- what happens to a dequeued message
\* the message that entry i of dequeue_log took from a queue was put on a
\* link by that switch: a transmission of it was started and its delivery
\* scheduled
PutOnLink(i) ==
  \E j \in 1 .. Len(tx_log) :
    /\ tx_log[j].sw = dequeue_log[i].sw
    /\ tx_log[j].msg = dequeue_log[i].entry.message
    /\ tx_log[j].kind = "fresh"

\* the message that entry i of dequeue_log took from a queue is recorded in
\* dropped_messages with a drop reason
RecordedDropped(i) ==
  LET m == dequeue_log[i].entry.message
  IN /\ \E k \in 1 .. Len(dropped_messages) : dropped_messages[k] = m
     /\ messages[m + 1].dropped
     /\ messages[m + 1].drop_reason # ""

\* C38: every message that a switch removes from its queue in
\* forward_next_message is either put on a link (a delivery event for it is
\* scheduled) or recorded in dropped_messages with a drop reason, also when
\* the forwarding table maps the destination to a port without output link.
C38_DequeuedIsSentOrDropped ==
  \A i \in 1 .. Len(dequeue_log) : PutOnLink(i) \/ RecordedDropped(i)

\* ------------------------------------------------ the paused byte counts
\* C39: in every paused record created by a PreemptiveSwitch,
\* 0 <= bytes_transmitted <= message.size_bytes and
\* 0 <= bytes_remaining <= message.size_bytes, and the elapsed time
\* now - start_time used at the preemption is not negative.
C39_PausedBytesInRange ==
  \A i \in 1 .. Len(preempt_log) :
    LET p == preempt_log[i]
    IN /\ 0 <= p.paused.bytes_transmitted
       /\ p.paused.bytes_transmitted <= p.size_bytes
       /\ 0 <= p.paused.bytes_remaining
       /\ p.paused.bytes_remaining <= p.size_bytes
       /\ p.paused.paused_at - p.start_time >= 0

\* ------------------------------------------------ the paused transmissions
\* C40: in every reachable state of a PreemptiveSwitch paused_transmissions
\* holds at most one entry, and it is non-empty only while
\* current_transmission is None: two transmissions are never paused at the
\* same time.
C40_AtMostOnePaused ==
  switch_kind = "preemptive" =>
    \A sw \in SwitchNames :
      /\ Len(switches[sw].paused_transmissions) <= 1
      /\ switches[sw].paused_transmissions # <<>> =>
           switches[sw].current_transmission = <<>>

\* a preemptive switch that has preempted twice holds one paused
\* transmission and transmits nothing
C40_Witness ==
  /\ switch_kind = "preemptive"
  /\ \E sw \in SwitchNames :
       /\ switches[sw].preemptions_count >= 2
       /\ Len(switches[sw].paused_transmissions) = 1
       /\ switches[sw].current_transmission = <<>>

====
